---------------------------- MODULE Spec2Model ----------------------------
(***************************************************************************)
(* Model of the CAN part of bw-r-drivers-tc37x.                            *)
(*                                                                         *)
(*  - Spec     : the module ownership gate of can_module/mod.rs            *)
(*               (Module::new, enable, take_node, set_clock_source).       *)
(*  - SpecNode : NewCanNode::configure of can_node.rs, one register write  *)
(*               or poll per step, against a node whose INIT bit follows   *)
(*               the value written to it only after a hardware step.       *)
(*  - SpecRun  : enable, take_node and configure in one run, with the      *)
(*               fairness of the running call and of the hardware.         *)
(*  - SpecCcu  : the clock startup of scu/ccu.rs (init and the four        *)
(*               functions it calls), one statement per step.              *)
(*  - SpecRx   : the decoding of a received element (internals/rx.rs) and  *)
(*               get_data_field_size, on every element and size code.      *)
(*  - SpecBuf  : the new data flags, Frame::new and transmit on an         *)
(*               operational node.                                         *)
(*                                                                         *)
(* The program is single threaded: an operation runs to completion before  *)
(* the next one starts.  The only concurrent agent is the hardware, which  *)
(* acknowledges requests (CLC.DISS follows CLC.DISR, CCCR.INIT follows the *)
(* value written to it).                                                   *)
(***************************************************************************)
EXTENDS Integers, Sequences, FiniteSets, TLC

VARIABLES
    \* ---- module (can_module/mod.rs) ----
    modState,      \* type state of Module: "Disabled", "Enabling", "Enabled"
    clc,           \* CLC register: [disr, diss]
    cpu_endinit,   \* TRUE while CPU endinit protection is set
    nodes_taken,   \* Module.nodes_taken : [bool; 4]
    mcr,           \* MCR register: [clksel : 0..3 -> 0..3, ccce, ci]
    handles,       \* number of node handles take_node has returned, per slot
    refused,       \* slots on which take_node has found the flag already set
    call,          \* the last completed call: [op, node, made]; made is the
                   \* result of Node::new when the call reached it, "-" if not
    pre_taken,     \* nodes_taken as it was when that call started
    result,        \* what that call returned
    panicked,      \* TRUE once the program has panicked
    \* ---- node (can_node.rs, can_node/effects.rs) ----
    pc,            \* position inside NewCanNode::configure
    node_id,       \* NodeId of the node being configured
    cfg,           \* the CanNodeConfig passed to configure
    cccr,          \* CCCR as read: [init, cce, fdoe, brse]
    init_req,      \* the INIT value last written (INIT is RWH: read lags write)
    nbtp,          \* NBTP: [nbrp, nsjw, ntseg1, ntseg2]
    dbtp,          \* DBTP: [dbrp, dsjw, dtseg1, dtseg2, tdc]
    tdcr,          \* TDCR: [tdco]
    txesc,         \* TXESC: [tbds]
    txbc,          \* TXBC: [tbsa, tfqm, tfqs]
    txbtie,        \* TXBTIE: set of buffer indices whose TIE bit is set
    rxesc,         \* RXESC: [rbds, f0ds, f1ds]
    rxf0c,         \* RXF0C: [f0sa, f0s, f0om, f0wm]
    log,           \* register accesses of the running configure, in order
    ret,           \* what configure returned, "-" before it returns
    \* ---- clock startup (scu/ccu.rs) ----
    ccu_fn,        \* the startup function init is running, "-" if none
    ccu_pc,        \* index of its next step
    ccu_cfg,       \* the Config given to init and what the hardware holds
    safety_endinit,\* TRUE while safety endinit protection is set
    ccu_log,       \* the steps init has taken, in order
    ccu_ret,       \* what init returned, "-" before it returns
    \* ---- messages (can_node/effects.rs, internals/rx.rs) ----
    rx_elem,       \* the RX element in message RAM: [xtd, id, fdf, brs]
    ndat1,         \* NDAT1: the bits that are set, buffers 0..31
    ndat2,         \* NDAT2: the bits that are set, buffers 32..63
    txbar,         \* TXBAR: the add-request bits that are set
    io,            \* the last call on an operational node:
                   \* [op, arg, out, wr]; wr is the register and message
                   \* RAM writes it made, in order
    \* ---- wait_cond (scu/ccu.rs) ----
    w_cond,        \* the condition the running wait_cond polls, "-" if none
    w_n,           \* the timeout_cycle_count wait_cond was called with
    w_count,       \* its local timeout_cycle_count
    w_polls,       \* the number of times it has evaluated cond
    w_obs,         \* the status bits its last evaluation read and what cond
                   \* returned: [sys_k2rdy, per_k2rdy, per_k3rdy, lck, cond]
    w_ret,         \* what it returned, "-" before it returns
    \* ---- distribute_clock_inline on the register values (scu/ccu.rs) ----
    ccucon,        \* CCUCON0..8: the bits that are set in each register
    ccucon_pre,    \* the registers as they were when the function was called
    clock_distribution, \* config.clock_distribution: [mask, value]
    dist_pc,       \* the step the function is at, 0 if it is not running
    dist_ret       \* what it returned, "-" before it returns

modVars  == <<modState, clc, cpu_endinit, nodes_taken, mcr, handles, refused,
              call, pre_taken, result, panicked>>
nodeVars == <<pc, node_id, cfg, cccr, init_req, nbtp, dbtp, tdcr, txesc, txbc,
              txbtie, rxesc, rxf0c, log, ret>>
ccuVars  == <<ccu_fn, ccu_pc, ccu_cfg, safety_endinit, ccu_log, ccu_ret>>
msgVars  == <<rx_elem, ndat1, ndat2, txbar, io>>
waitVars == <<w_cond, w_n, w_count, w_polls, w_obs, w_ret>>
distVars == <<ccucon, ccucon_pre, clock_distribution, dist_pc, dist_ret>>
vars     == <<modVars, nodeVars, ccuVars, msgVars, waitVars, distVars>>

-----------------------------------------------------------------------------
(* Bounds and value sets *)

\* number of node slots of a module: nodes_taken: [bool; 4]
NumNodes == 4

\* node indices a caller can pass: 0..3 are the slots, NumNodes is out of range
MaxNodeIndex == 4

\* cap of the ghost counter of handles handed out per slot
MaxHandles == 2

Slots       == 0 .. (NumNodes - 1)
NodeIndices == 0 .. MaxNodeIndex

ClockSources == {"Asynchronous", "Synchronous", "Both"}

\* impl From<ClockSource> for u8
ClockSourceU8(x) ==
    CASE x = "Asynchronous" -> 1
      [] x = "Synchronous"  -> 2
      [] x = "Both"         -> 3

\* a register field of `width` bits keeps the low bits of what is set
Field(v, width) == v % (2 ^ width)

-----------------------------------------------------------------------------
(* Module: set_clock_source *)

\* MCR with CCCE and CI set to b
McrHandshake(m, b) == [m EXCEPT !.ccce = b, !.ci = b]

\* MCR with CLKSELx of node `sel` set to the 2-bit value src
McrSelect_allNodes(m, sel, src) ==
    [m EXCEPT !.clksel = [i \in DOMAIN m.clksel |-> Field(src, 2)]]
McrSelect(m, sel, src) == [m EXCEPT !.clksel[sel] = Field(src, 2)]

\* The three values set_clock_source writes to MCR, in order.
ClockWrites(m, sel, src) ==
    LET w1 == McrHandshake(m, TRUE)
        w2 == McrSelect(w1, sel, ClockSourceU8(src))
        w3 == McrHandshake(w2, FALSE)
    IN  <<w1, w2, w3>>

\* MCR as the hardware holds it after the three writes and the settling
\* delay: CCCE and CI as last written; the CLKSEL field of the node holds the
\* requested source if the clock switch took place, its old value otherwise.
McrAfter(m, sel, src, switched) ==
    LET w == ClockWrites(m, sel, src)[3]
    IN  IF switched THEN w ELSE [w EXCEPT !.clksel[sel] = m.clksel[sel]]

\* The accesses set_clock_source makes, in program order: the MCR read of
\* line 89, the writes of lines 99, 113 and 118, the settling delay of line
\* 122 and the read-back of line 126.
ClockAccesses_selectAfterClear(m, sel, src, switched) ==
    LET w == ClockWrites(m, sel, src)
    IN  << [op |-> "read",  val |-> m],
           [op |-> "write", val |-> w[1]],
           [op |-> "write", val |-> McrHandshake(w[1], FALSE)],
           [op |-> "write", val |-> w[3]],
           [op |-> "wait",  val |-> [cycles |-> 10]],
           [op |-> "read",  val |-> McrAfter(m, sel, src, switched)] >>
ClockAccesses(m, sel, src, switched) ==
    LET w == ClockWrites(m, sel, src)
    IN  << [op |-> "read",  val |-> m],
           [op |-> "write", val |-> w[1]],
           [op |-> "write", val |-> w[2]],
           [op |-> "write", val |-> w[3]],
           [op |-> "wait",  val |-> [cycles |-> 10]],
           [op |-> "read",  val |-> McrAfter(m, sel, src, switched)] >>

\* set_clock_source(clock_select, clock_source): outcome [mcr, res]
set_clock_source_unverified(m, sel, src, switched) ==
    [mcr |-> McrAfter(m, sel, src, switched), res |-> "Ok"]
set_clock_source(m, sel, src, switched) ==
    IF sel \notin Slots
    THEN [mcr |-> McrHandshake(m, TRUE), res |-> "Panic"]   \* unreachable!()
    ELSE LET after  == McrAfter(m, sel, src, switched)
             actual == after.clksel[sel]
         IN  [mcr |-> after,
              res |-> IF actual # ClockSourceU8(src) THEN "Err" ELSE "Ok"]

-----------------------------------------------------------------------------
(* Module: new, enable, take_node *)

NoneTaken == [i \in Slots |-> FALSE]

\* Module::is_enabled: DISS reads cleared
is_enabled_unpolled == TRUE
is_enabled == ~clc.diss

\* enable(), first part: clear CPU endinit, clear DISR, start polling
EnableStart ==
    /\ modState = "Disabled"
    /\ ~panicked
    /\ cpu_endinit' = FALSE
    /\ clc' = [clc EXCEPT !.disr = FALSE]
    /\ modState' = "Enabling"
    /\ UNCHANGED <<nodes_taken, mcr, handles, refused, call, pre_taken, result,
                   panicked>>
    /\ UNCHANGED nodeVars
    /\ UNCHANGED <<ccuVars, msgVars, waitVars, distVars>>

\* hardware: the status bit DISS follows the request bit DISR
HwClc ==
    /\ clc.diss # clc.disr
    /\ clc' = [clc EXCEPT !.diss = clc.disr]
    /\ UNCHANGED <<modState, cpu_endinit, nodes_taken, mcr, handles, refused,
                   call, pre_taken, result, panicked>>
    /\ UNCHANGED nodeVars
    /\ UNCHANGED <<ccuVars, msgVars, waitVars, distVars>>

\* enable(), second part: the poll has seen the module enabled
EnableFinish_leavesEndinit ==
    /\ modState = "Enabling"
    /\ is_enabled
    /\ modState' = "Enabled"
    /\ nodes_taken' = NoneTaken
    /\ call' = [op |-> "enable", node |-> 0, made |-> "-"]
    /\ pre_taken' = nodes_taken
    /\ result' = "Enabled"
    /\ UNCHANGED <<clc, cpu_endinit, mcr, handles, refused, panicked>>
    /\ UNCHANGED nodeVars
    /\ UNCHANGED <<ccuVars, msgVars, waitVars, distVars>>
EnableFinish ==
    /\ modState = "Enabling"
    /\ is_enabled
    /\ cpu_endinit' = TRUE
    /\ modState' = "Enabled"
    /\ nodes_taken' = NoneTaken
    /\ call' = [op |-> "enable", node |-> 0, made |-> "-"]
    /\ pre_taken' = nodes_taken
    /\ result' = "Enabled"
    /\ UNCHANGED <<clc, mcr, handles, refused, panicked>>
    /\ UNCHANGED nodeVars
    /\ UNCHANGED <<ccuVars, msgVars, waitVars, distVars>>

\* take_node lines 69-74: the slot's flag is read through `flag`
AlreadyTaken_unchecked(taken, i) == FALSE
AlreadyTaken(taken, i) == taken[i]

\* take_node line 77: *flag = true
MarkTaken_unset(taken, i) == taken
MarkTaken_fresh(taken, i) == [j \in Slots |-> j = i]
MarkTaken_all(taken, i) == [j \in Slots |-> TRUE]
MarkTaken(taken, i) == [taken EXCEPT ![i] = TRUE]

\* Node::new(self, node_id, config): creating the node selects its clock
\* source; creation fails when the clock switch is not verified.
NodeNew(m, i, config, switched) ==
    set_clock_source(m, i, config.clock_source, switched)

\* self.nodes_taken[node_index]: the slot that is indexed, OutOfBounds (no
\* slot) when the index is not one of the array (the indexing panics)
OutOfBounds == NumNodes
IndexSlot_wrapped(i) == i % NumNodes
IndexSlot(i) == IF i \in Slots THEN i ELSE OutOfBounds

\* take_node(node_id, config)
TakeNode(i, config, switched) ==
    /\ modState = "Enabled"
    /\ ~panicked
    /\ pre_taken' = nodes_taken
    /\ LET k == IndexSlot(i)
       IN  IF k = OutOfBounds
           THEN \* self.nodes_taken[node_index] panics: index out of bounds
                /\ panicked' = TRUE
                /\ result' = "Panic"
                /\ call' = [op |-> "take_node", node |-> i, made |-> "-"]
                /\ UNCHANGED <<nodes_taken, mcr, handles, refused>>
           ELSE IF AlreadyTaken(nodes_taken, k)
           THEN /\ result' = "None"
                /\ refused' = refused \cup {k}
                /\ call' = [op |-> "take_node", node |-> i, made |-> "-"]
                /\ UNCHANGED <<nodes_taken, mcr, handles, panicked>>
           ELSE LET made == NodeNew(mcr, k, config, switched)
                IN  /\ handles[k] < MaxHandles
                    /\ nodes_taken' = MarkTaken(nodes_taken, k)
                    /\ mcr' = made.mcr
                    /\ call' = [op |-> "take_node", node |-> i,
                                made |-> made.res]
                    /\ IF made.res = "Ok"
                       THEN /\ result' = "Some"
                            /\ handles' = [handles EXCEPT ![k] = @ + 1]
                       ELSE /\ result' = "None"
                            /\ UNCHANGED handles
                    /\ UNCHANGED <<refused, panicked>>
    /\ UNCHANGED <<modState, clc, cpu_endinit>>
    /\ UNCHANGED nodeVars
    /\ UNCHANGED <<ccuVars, msgVars, waitVars, distVars>>

-----------------------------------------------------------------------------
(* Node: configuration values *)

FrameModes == {"Standard", "FdLong", "FdLongAndFast"}
FrameTypes == {"Receive", "Transmit", "TransmitAndReceive", "RemoteRequest",
               "RemoteAnswer"}

\* CanNodeConfig values take_node is tried with (only the clock source is
\* read while the node is created)
TakeConfigs == [clock_source : ClockSources]

\* `x as u8`
U8(x) == x % 256

\* BaudRate values configure is tried with: one whose values fit the NBTP
\* fields and one whose values do not
BaudRates ==
    { [baud_rate |-> 1000000, sample_point |-> 8000, sync_jump_with |-> 3,
       prescalar |-> 9, time_segment_1 |-> 10, time_segment_2 |-> 3],
      [baud_rate |-> 500000, sample_point |-> 8000, sync_jump_with |-> 300,
       prescalar |-> 600, time_segment_1 |-> 255, time_segment_2 |-> 200] }

\* FastBaudRate values configure is tried with
FastBaudRates ==
    { [baud_rate |-> 2000000, sample_point |-> 8000, sync_jump_with |-> 3,
       prescalar |-> 1, time_segment_1 |-> 10, time_segment_2 |-> 3,
       transceiver_delay_offset |-> 0],
      [baud_rate |-> 2000000, sample_point |-> 8000, sync_jump_with |-> 20,
       prescalar |-> 300, time_segment_1 |-> 40, time_segment_2 |-> 17,
       transceiver_delay_offset |-> 12] }

\* (tx_buffer_data_field_size, message_ram_tx_buffers_start_address) pairs
TxLayouts == { <<0, 1088>>, <<7, 514>>, <<0, 65532>> }

\* The CanNodeConfig values configure is tried with.  tx_mode and rx_mode are
\* fields of the struct that configure never reads.
NodeConfigs ==
    { [clock_source |-> cs, calculate_bit_timing_values |-> calc,
       baud_rate |-> br, fast_baud_rate |-> fbr, frame_mode |-> fm,
       frame_type |-> ft, tx_buffer_data_field_size |-> tx[1],
       message_ram_tx_buffers_start_address |-> tx[2]] :
      cs \in ClockSources, calc \in BOOLEAN, br \in BaudRates,
      fbr \in FastBaudRates, fm \in FrameModes, ft \in FrameTypes,
      tx \in TxLayouts }

\* CanNodeConfig::default()
DefaultConfig ==
    [clock_source |-> "Both", calculate_bit_timing_values |-> FALSE,
     baud_rate |-> [baud_rate |-> 0, sample_point |-> 0, sync_jump_with |-> 0,
                    prescalar |-> 0, time_segment_1 |-> 0, time_segment_2 |-> 0],
     fast_baud_rate |-> [baud_rate |-> 0, sample_point |-> 0,
                         sync_jump_with |-> 0, prescalar |-> 0,
                         time_segment_1 |-> 0, time_segment_2 |-> 0,
                         transceiver_delay_offset |-> 0],
     frame_mode |-> "Standard", frame_type |-> "Receive",
     tx_buffer_data_field_size |-> 0,
     message_ram_tx_buffers_start_address |-> 0]

\* calculate_bit_timing / calculate_fast_bit_timing: segments for the target
\* baud rate and sample point, each clamped to its register field
calculate_bit_timing(baud_rate, sample_point, sjw) ==
    [brp |-> 0, sjw |-> Field(sjw, 7), tseg1 |-> 62, tseg2 |-> 15]

calculate_fast_bit_timing(baud_rate, sample_point, sjw) ==
    [brp |-> 0, sjw |-> Field(sjw, 4), tseg1 |-> 30, tseg2 |-> 7]

\* the frame types with which configure programs the TX buffers (lines 144-148)
Transmits(ft) ==
    ft \in {"Transmit", "TransmitAndReceive", "RemoteRequest", "RemoteAnswer"}

-----------------------------------------------------------------------------
(* Node: the steps of NewCanNode::configure *)

\* The calls configure makes for config c, in program order (lines 125-173).
ConfigSteps_modeBeforeTiming(c) ==
    <<"set_clock_source", "enable_configuration_change", "set_frame_mode",
      "configure_baud_rate">>
    \o (IF c.frame_mode # "Standard" THEN <<"configure_fast_baud_rate">> ELSE <<>>)
    \o (IF Transmits(c.frame_type) THEN <<"tx_buffer">> ELSE <<>>)
    \o <<"disable_configuration_change", "set_rx_fifo0", "set_tx_fifo">>
ConfigSteps_alwaysFast(c) ==
    <<"set_clock_source", "enable_configuration_change", "configure_baud_rate",
      "configure_fast_baud_rate">>
    \o (IF Transmits(c.frame_type) THEN <<"tx_buffer">> ELSE <<>>)
    \o <<"set_frame_mode", "disable_configuration_change", "set_rx_fifo0",
         "set_tx_fifo">>
ConfigSteps(c) ==
    <<"set_clock_source", "enable_configuration_change", "configure_baud_rate">>
    \o (IF c.frame_mode # "Standard" THEN <<"configure_fast_baud_rate">> ELSE <<>>)
    \o (IF Transmits(c.frame_type) THEN <<"tx_buffer">> ELSE <<>>)
    \o <<"set_frame_mode", "disable_configuration_change", "set_rx_fifo0",
         "set_tx_fifo">>

\* the call that follows call s in configure, "done" after the last one
StepAfter(s, c) ==
    LET steps == ConfigSteps(c)
        k     == CHOOSE j \in 1 .. Len(steps) : steps[j] = s
    IN  IF k = Len(steps) THEN "done" ELSE steps[k + 1]

\* one register access, with INIT and CCE as they read and with the CPU
\* endinit protection as it is when the access is made
Access(op, fn, reg, val) ==
    [op |-> op, fn |-> fn, reg |-> reg, val |-> val,
     init |-> cccr.init, cce |-> cccr.cce, endinit |-> cpu_endinit]

\* cccr.modify(|r| ...): read-modify-write; the INIT bit written back is the
\* one read unless the closure sets it
CccrKeepInit == init_req' = cccr.init

\* hardware: INIT (RWH) reads as last written only after synchronisation
HwInit ==
    /\ cccr.init # init_req
    /\ cccr' = [cccr EXCEPT !.init = init_req]
    /\ UNCHANGED <<pc, node_id, cfg, init_req, nbtp, dbtp, tdcr, txesc, txbc,
                   txbtie, rxesc, rxf0c, log, ret>>
    /\ UNCHANGED modVars
    /\ UNCHANGED <<ccuVars, msgVars, waitVars, distVars>>

\* configure(self, config) is called on the node handle
ConfigureCall(c) ==
    /\ pc = "idle"
    /\ ~panicked
    /\ handles[node_id] = 1
    /\ cfg' = c
    /\ log' = <<>>
    /\ pc' = ConfigSteps(c)[1]
    /\ UNCHANGED <<node_id, cccr, init_req, nbtp, dbtp, tdcr, txesc, txbc,
                   txbtie, rxesc, rxf0c, ret>>
    /\ UNCHANGED modVars
    /\ UNCHANGED <<ccuVars, msgVars, waitVars, distVars>>

\* lines 125-129: self.module.set_clock_source(...); the result is dropped
CfgClock(switched) ==
    /\ pc = "set_clock_source"
    /\ LET a == ClockAccesses(mcr, node_id, cfg.clock_source, switched)
           r == set_clock_source(mcr, node_id, cfg.clock_source, switched)
       IN  /\ mcr' = r.mcr
           /\ log' = log
                \o [k \in 1 .. Len(a) |->
                      Access(a[k].op, "set_clock_source", "MCR", a[k].val)]
                \o <<Access("return", "set_clock_source", "-",
                             [res |-> r.res])>>
    /\ pc' = StepAfter("set_clock_source", cfg)
    /\ UNCHANGED <<node_id, cfg, cccr, init_req, nbtp, dbtp, tdcr, txesc, txbc,
                   txbtie, rxesc, rxf0c, ret>>
    /\ UNCHANGED <<modState, clc, cpu_endinit, nodes_taken, handles, refused,
                   call, pre_taken, result, panicked>>
    /\ UNCHANGED <<ccuVars, msgVars, waitVars, distVars>>

-----------------------------------------------------------------------------
(* Node: enable_configuration_change (can_node.rs 280-295, effects.rs 239-267) *)

\* line 283: if cccr.read().init().get()
EccInitOnEntry_ignored(c) == FALSE
EccInitOnEntry(c) == c.init

\* line 285: the poll ends when CCE reads clear
EccCceCleared(c) == ~c.cce

\* line 288: the poll ends when INIT reads clear
EccInitCleared(c) == ~c.init

\* line 292: the poll ends when INIT reads set
EccInitSet_nowait(c) == TRUE
EccInitSet(c) == c.init

nodeRegs == <<nbtp, dbtp, tdcr, txesc, txbc, txbtie, rxesc, rxf0c>>

EccRead ==
    /\ pc = "enable_configuration_change"
    /\ log' = Append(log, Access("read", "enable_configuration_change", "CCCR",
                                 [init |-> cccr.init]))
    /\ pc' = IF EccInitOnEntry(cccr) THEN "ecc_clr_cce" ELSE "ecc_set_init"
    /\ UNCHANGED <<node_id, cfg, cccr, init_req, ret>>
    /\ UNCHANGED nodeRegs
    /\ UNCHANGED modVars
    /\ UNCHANGED <<ccuVars, msgVars, waitVars, distVars>>

EccClrCce ==
    /\ pc = "ecc_clr_cce"
    /\ cccr' = [cccr EXCEPT !.cce = FALSE]
    /\ CccrKeepInit
    /\ log' = Append(log, Access("write", "enable_configuration_change", "CCCR",
                                 [cce |-> FALSE]))
    /\ pc' = "ecc_poll_cce"
    /\ UNCHANGED <<node_id, cfg, ret>>
    /\ UNCHANGED nodeRegs
    /\ UNCHANGED modVars
    /\ UNCHANGED <<ccuVars, msgVars, waitVars, distVars>>

EccPollCce ==
    /\ pc = "ecc_poll_cce"
    /\ EccCceCleared(cccr)
    /\ log' = Append(log, Access("poll", "enable_configuration_change", "CCCR",
                                 [cce |-> cccr.cce]))
    /\ pc' = "ecc_clr_init"
    /\ UNCHANGED <<node_id, cfg, cccr, init_req, ret>>
    /\ UNCHANGED nodeRegs
    /\ UNCHANGED modVars
    /\ UNCHANGED <<ccuVars, msgVars, waitVars, distVars>>

EccClrInit ==
    /\ pc = "ecc_clr_init"
    /\ init_req' = FALSE
    /\ log' = Append(log, Access("write", "enable_configuration_change", "CCCR",
                                 [init |-> FALSE]))
    /\ pc' = "ecc_poll_init_clear"
    /\ UNCHANGED <<node_id, cfg, cccr, ret>>
    /\ UNCHANGED nodeRegs
    /\ UNCHANGED modVars
    /\ UNCHANGED <<ccuVars, msgVars, waitVars, distVars>>

EccPollInitClear ==
    /\ pc = "ecc_poll_init_clear"
    /\ EccInitCleared(cccr)
    /\ log' = Append(log, Access("poll", "enable_configuration_change", "CCCR",
                                 [init |-> cccr.init]))
    /\ pc' = "ecc_set_init"
    /\ UNCHANGED <<node_id, cfg, cccr, init_req, ret>>
    /\ UNCHANGED nodeRegs
    /\ UNCHANGED modVars
    /\ UNCHANGED <<ccuVars, msgVars, waitVars, distVars>>

EccSetInit ==
    /\ pc = "ecc_set_init"
    /\ init_req' = TRUE
    /\ log' = Append(log, Access("write", "enable_configuration_change", "CCCR",
                                 [init |-> TRUE]))
    /\ pc' = "ecc_poll_init_set"
    /\ UNCHANGED <<node_id, cfg, cccr, ret>>
    /\ UNCHANGED nodeRegs
    /\ UNCHANGED modVars
    /\ UNCHANGED <<ccuVars, msgVars, waitVars, distVars>>

EccPollInitSet ==
    /\ pc = "ecc_poll_init_set"
    /\ EccInitSet(cccr)
    /\ log' = Append(log, Access("poll", "enable_configuration_change", "CCCR",
                                 [init |-> cccr.init]))
    /\ pc' = "ecc_set_cce"
    /\ UNCHANGED <<node_id, cfg, cccr, init_req, ret>>
    /\ UNCHANGED nodeRegs
    /\ UNCHANGED modVars
    /\ UNCHANGED <<ccuVars, msgVars, waitVars, distVars>>

EccSetCce ==
    /\ pc = "ecc_set_cce"
    /\ cccr' = [cccr EXCEPT !.cce = TRUE]
    /\ init_req' = TRUE
    /\ log' = Append(log, Access("write", "enable_configuration_change", "CCCR",
                                 [cce |-> TRUE, init |-> TRUE]))
    /\ pc' = StepAfter("enable_configuration_change", cfg)
    /\ UNCHANGED <<node_id, cfg, ret>>
    /\ UNCHANGED nodeRegs
    /\ UNCHANGED modVars
    /\ UNCHANGED <<ccuVars, msgVars, waitVars, distVars>>

-----------------------------------------------------------------------------
(* Node: bit timing, TX buffers, frame mode (can_node.rs 309-450) *)

\* set_bit_timing / set_bit_timing_values: the NBTP fields after the modify
NbtpSet(brp, sjw, tseg1, tseg2) ==
    [nbrp |-> Field(brp, 9), nsjw |-> Field(sjw, 7),
     ntseg1 |-> Field(tseg1, 8), ntseg2 |-> Field(tseg2, 7)]

\* set_fast_bit_timing / set_fast_bit_timing_values: DBTP after the modify
DbtpSet(d, brp, sjw, tseg1, tseg2) ==
    [d EXCEPT !.dbrp = Field(brp, 5), !.dsjw = Field(sjw, 4),
              !.dtseg1 = Field(tseg1, 5), !.dtseg2 = Field(tseg2, 4)]

\* configure_baud_rate(calculate_bit_timing_values, &baud_rate)
configure_baud_rate(c) ==
    LET b == c.baud_rate
        t == calculate_bit_timing(b.baud_rate, b.sample_point, b.sync_jump_with)
    IN  IF c.calculate_bit_timing_values
        THEN NbtpSet(t.brp, t.sjw, t.tseg1, t.tseg2)
        ELSE NbtpSet(b.prescalar, U8(b.sync_jump_with), b.time_segment_1,
                     b.time_segment_2)

CfgBaudRate ==
    /\ pc = "configure_baud_rate"
    /\ nbtp' = configure_baud_rate(cfg)
    /\ log' = Append(log, Access("write", "configure_baud_rate", "NBTP", nbtp'))
    /\ pc' = StepAfter("configure_baud_rate", cfg)
    /\ UNCHANGED <<node_id, cfg, cccr, init_req, dbtp, tdcr, txesc, txbc,
                   txbtie, rxesc, rxf0c, ret>>
    /\ UNCHANGED modVars
    /\ UNCHANGED <<ccuVars, msgVars, waitVars, distVars>>

\* configure_fast_baud_rate: the DBTP timing fields
configure_fast_baud_rate(d, c) ==
    LET b == c.fast_baud_rate
        t == calculate_fast_bit_timing(b.baud_rate, b.sample_point,
                                       b.sync_jump_with)
    IN  IF c.calculate_bit_timing_values
        THEN DbtpSet(d, t.brp, t.sjw, t.tseg1, t.tseg2)
        ELSE DbtpSet(d, U8(b.prescalar), U8(b.sync_jump_with),
                     b.time_segment_1, b.time_segment_2)

\* configure_fast_baud_rate, then set_transceiver_delay_compensation_offset
\* when the offset is not 0
CfgFastBaudRate ==
    /\ pc = "configure_fast_baud_rate"
    /\ LET d1  == configure_fast_baud_rate(dbtp, cfg)
           tdo == cfg.fast_baud_rate.transceiver_delay_offset
           a1  == Access("write", "configure_fast_baud_rate", "DBTP", d1)
       IN  IF tdo # 0
           THEN /\ dbtp' = [d1 EXCEPT !.tdc = TRUE]
                /\ tdcr' = [tdco |-> Field(tdo, 7)]
                /\ log' = log \o
                     <<a1,
                       Access("write", "configure_fast_baud_rate", "DBTP",
                              [tdc |-> TRUE]),
                       Access("write", "configure_fast_baud_rate", "TDCR", tdcr')>>
           ELSE /\ dbtp' = d1
                /\ log' = Append(log, a1)
                /\ UNCHANGED tdcr
    /\ pc' = StepAfter("configure_fast_baud_rate", cfg)
    /\ UNCHANGED <<node_id, cfg, cccr, init_req, nbtp, txesc, txbc, txbtie,
                   rxesc, rxf0c, ret>>
    /\ UNCHANGED modVars
    /\ UNCHANGED <<ccuVars, msgVars, waitVars, distVars>>

\* set_tx_buffer_data_field_size: TXESC.TBDS
TbdsSet(size) == [tbds |-> Field(size, 3)]

\* set_tx_buffer_start_address: TXBC.TBSA = address >> 2
TbsaSet(t, address) == [t EXCEPT !.tbsa = Field(address \div 4, 14)]

\* lines 143-151: the TX buffer size and start address of the config
CfgTxBuffer ==
    /\ pc = "tx_buffer"
    /\ txesc' = TbdsSet(cfg.tx_buffer_data_field_size)
    /\ txbc' = TbsaSet(txbc, cfg.message_ram_tx_buffers_start_address)
    /\ log' = log \o <<Access("write", "tx_buffer", "TXESC", txesc'),
                       Access("write", "tx_buffer", "TXBC",
                              [tbsa |-> txbc'.tbsa])>>
    /\ pc' = StepAfter("tx_buffer", cfg)
    /\ UNCHANGED <<node_id, cfg, cccr, init_req, nbtp, dbtp, tdcr, txbtie,
                   rxesc, rxf0c, ret>>
    /\ UNCHANGED modVars
    /\ UNCHANGED <<ccuVars, msgVars, waitVars, distVars>>

\* set_frame_mode: (fdoe, brse) for a frame mode
FrameModeBits(fm) ==
    CASE fm = "Standard"      -> [fdoe |-> FALSE, brse |-> FALSE]
      [] fm = "FdLong"        -> [fdoe |-> TRUE,  brse |-> FALSE]
      [] fm = "FdLongAndFast" -> [fdoe |-> TRUE,  brse |-> TRUE]

CfgFrameMode ==
    /\ pc = "set_frame_mode"
    /\ LET b == FrameModeBits(cfg.frame_mode)
       IN  /\ cccr' = [cccr EXCEPT !.fdoe = b.fdoe, !.brse = b.brse]
           /\ log' = Append(log, Access("write", "set_frame_mode", "CCCR", b))
    /\ CccrKeepInit
    /\ pc' = StepAfter("set_frame_mode", cfg)
    /\ UNCHANGED <<node_id, cfg, ret>>
    /\ UNCHANGED nodeRegs
    /\ UNCHANGED modVars
    /\ UNCHANGED <<ccuVars, msgVars, waitVars, distVars>>

-----------------------------------------------------------------------------
(* Node: disable_configuration_change (can_node.rs 297-307, effects.rs 270-286) *)

\* line 302: the poll ends when CCE reads clear
DccCceCleared_inverted(c) == c.cce
DccCceCleared(c) == ~c.cce

\* line 306: the poll ends when INIT reads clear
DccInitCleared_nowait(c) == TRUE
DccInitCleared(c) == ~c.init

DccClrCce ==
    /\ pc = "disable_configuration_change"
    /\ cccr' = [cccr EXCEPT !.cce = FALSE]
    /\ CccrKeepInit
    /\ log' = Append(log, Access("write", "disable_configuration_change", "CCCR",
                                 [cce |-> FALSE]))
    /\ pc' = "dcc_poll_cce"
    /\ UNCHANGED <<node_id, cfg, ret>>
    /\ UNCHANGED nodeRegs
    /\ UNCHANGED modVars
    /\ UNCHANGED <<ccuVars, msgVars, waitVars, distVars>>

DccPollCce ==
    /\ pc = "dcc_poll_cce"
    /\ DccCceCleared(cccr)
    /\ log' = Append(log, Access("poll", "disable_configuration_change", "CCCR",
                                 [cce |-> cccr.cce]))
    /\ pc' = "dcc_clr_init"
    /\ UNCHANGED <<node_id, cfg, cccr, init_req, ret>>
    /\ UNCHANGED nodeRegs
    /\ UNCHANGED modVars
    /\ UNCHANGED <<ccuVars, msgVars, waitVars, distVars>>

DccClrInit ==
    /\ pc = "dcc_clr_init"
    /\ init_req' = FALSE
    /\ log' = Append(log, Access("write", "disable_configuration_change", "CCCR",
                                 [init |-> FALSE]))
    /\ pc' = "dcc_poll_init"
    /\ UNCHANGED <<node_id, cfg, cccr, ret>>
    /\ UNCHANGED nodeRegs
    /\ UNCHANGED modVars
    /\ UNCHANGED <<ccuVars, msgVars, waitVars, distVars>>

DccPollInit ==
    /\ pc = "dcc_poll_init"
    /\ DccInitCleared(cccr)
    /\ log' = Append(log, Access("poll", "disable_configuration_change", "CCCR",
                                 [init |-> cccr.init]))
    /\ pc' = StepAfter("disable_configuration_change", cfg)
    /\ UNCHANGED <<node_id, cfg, cccr, init_req, ret>>
    /\ UNCHANGED nodeRegs
    /\ UNCHANGED modVars
    /\ UNCHANGED <<ccuVars, msgVars, waitVars, distVars>>

-----------------------------------------------------------------------------
(* Node: RX FIFO 0 and TX FIFO (can_node.rs 157-173, 203-278) *)

\* DataFieldSize as u8
DataFieldSizeCode(s) ==
    CASE s = "_8" -> 0 [] s = "_12" -> 1 [] s = "_16" -> 2 [] s = "_20" -> 3
      [] s = "_24" -> 4 [] s = "_32" -> 5 [] s = "_48" -> 6 [] s = "_64" -> 7

\* the FifoData literal of lines 158-164
RxFifo0Data ==
    [field_size |-> "_8", operation_mode |-> "Blocking", watermark_level |-> 0,
     size |-> 4, start_address |-> 256]

\* the DedicatedData literal and fifo size of lines 167-173
TxFifoData_onRxFifo0 ==
    [field_size |-> "_8", start_address |-> 256, fifo_size |-> 4]
TxFifoData == [field_size |-> "_8", start_address |-> 1088, fifo_size |-> 4]

\* TxMode as u8
TxModeCode(m) ==
    CASE m = "DedicatedBuffers" -> 0 [] m = "Fifo" -> 1 [] m = "Queue" -> 2
      [] m = "SharedFifo" -> 3 [] m = "SharedQueue" -> 4

\* set_rx_fifo0(data): five modifies of RXESC and RXF0C
CfgRxFifo0 ==
    /\ pc = "set_rx_fifo0"
    /\ LET d == RxFifo0Data
       IN  /\ rxesc' = [rxesc EXCEPT
                            !.f0ds = Field(DataFieldSizeCode(d.field_size), 3)]
           /\ rxf0c' = [f0sa |-> Field(d.start_address \div 4, 14),
                        f0s  |-> Field(d.size, 7),
                        f0om |-> (d.operation_mode = "Overwrite"),
                        f0wm |-> Field(d.watermark_level, 7)]
           /\ log' = log \o
                <<Access("write", "set_rx_fifo0", "RXESC", [f0ds |-> rxesc'.f0ds]),
                  Access("write", "set_rx_fifo0", "RXF0C", [f0sa |-> rxf0c'.f0sa]),
                  Access("write", "set_rx_fifo0", "RXF0C", [f0s |-> rxf0c'.f0s]),
                  Access("write", "set_rx_fifo0", "RXF0C", [f0om |-> rxf0c'.f0om]),
                  Access("write", "set_rx_fifo0", "RXF0C", [f0wm |-> rxf0c'.f0wm])>>
    /\ pc' = StepAfter("set_rx_fifo0", cfg)
    /\ UNCHANGED <<node_id, cfg, cccr, init_req, nbtp, dbtp, tdcr, txesc, txbc,
                   txbtie, ret>>
    /\ UNCHANGED modVars
    /\ UNCHANGED <<ccuVars, msgVars, waitVars, distVars>>

\* set_tx_fifo(buffers, fifo_size): set_inner_tx_buffers,
\* set_inner_tx_fifo_queue(TxMode::Fifo, size), set_inner_tx_int(size);
\* configure returns Ok(CanNode) after it
CfgTxFifo ==
    /\ pc = "set_tx_fifo"
    /\ LET d == TxFifoData
           t == TbsaSet(txbc, d.start_address)
       IN  /\ txesc' = TbdsSet(DataFieldSizeCode(d.field_size))
           /\ txbc' = [t EXCEPT !.tfqm = (TxModeCode("Fifo") # 0),
                                !.tfqs = Field(d.fifo_size, 6)]
           /\ txbtie' = txbtie \cup (0 .. (d.fifo_size - 1))
           /\ log' = log \o
                <<Access("write", "set_tx_fifo", "TXESC", txesc'),
                  Access("write", "set_tx_fifo", "TXBC", [tbsa |-> txbc'.tbsa]),
                  Access("write", "set_tx_fifo", "TXBC", [tfqm |-> txbc'.tfqm]),
                  Access("write", "set_tx_fifo", "TXBC", [tfqs |-> txbc'.tfqs])>>
                \o [k \in 1 .. d.fifo_size |->
                      Access("write", "set_tx_fifo", "TXBTIE", [bit |-> k - 1])]
    /\ pc' = StepAfter("set_tx_fifo", cfg)
    /\ ret' = "Ok"
    /\ UNCHANGED <<node_id, cfg, cccr, init_req, nbtp, dbtp, tdcr, rxesc, rxf0c>>
    /\ UNCHANGED modVars
    /\ UNCHANGED <<ccuVars, msgVars, waitVars, distVars>>

-----------------------------------------------------------------------------
(* Clock startup: scu/ccu.rs init and the four functions it calls *)

\* longest sys_pll_throttle slice init is tried with
MaxThrottleSteps == 2

\* init calls these in this order and stops at the first error (lines 27-33)
InitOrder ==
    <<"configure_ccu_initial_step", "modulation_init",
      "distribute_clock_inline", "throttle_sys_pll_clock_inline">>

\* The inputs of init: the fields of Config that select a path, and the
\* register values read at lines 306-308 and 347 that do.
CcuConfigs ==
    [ pll_input_clock_selection : {"F0sc1", "F0sc0", "FSynclk"},
      xtal_frequency            : {20000000, 300000000},
      modulation                : {"Disabled", "Enabled"},
      ccucon1_clocks_stopped    : BOOLEAN,
      ccucon2_clocks_stopped    : BOOLEAN,
      sys_pll_throttle          : 0 .. MaxThrottleSteps ]

\* one step of a startup function: what it does, at which line, to what
CcuStep(k, line, reg) == [k |-> k, line |-> line, reg |-> reg]

\* set_pll_power, lines 70-82
SetPllPowerSteps ==
    << CcuStep("write", 74, "SYSPLLCON0"), CcuStep("write", 75, "PERPLLCON0"),
       CcuStep("wait", 77, "PWDSTAT") >>

\* lines 134-136: ((xtal_frequency / 1000000) - 15).try_into(): fits u8
OscvalFits(c) == (c.xtal_frequency \div 1000000) - 15 <= 255

\* configure_ccu_initial_step, lines 84-239
ConfigureCcuInitialSteps(c) ==
    << CcuStep("clear", 88, "-"),
       CcuStep("wait", 90, "CCUCON0.LCK"),
       CcuStep("write", 94, "CCUCON0"),
       CcuStep("wait", 101, "CCUCON0.LCK"),
       CcuStep("write", 106, "SMU.KEYS"),
       CcuStep("write", 109, "SMU.AG8CFJ0"),
       CcuStep("write", 110, "SMU.AG8CFJ1"),
       CcuStep("write", 111, "SMU.AG8CFJ2"),
       CcuStep("write", 113, "SMU.KEYS") >>
    \o SetPllPowerSteps
    \o (IF c.pll_input_clock_selection \in {"F0sc0", "FSynclk"}
        THEN << CcuStep("check", 134, "oscval"), CcuStep("write", 139, "OSCCON") >>
        ELSE << >>)
    \o << CcuStep("write", 146, "SYSPLLCON0"),
          CcuStep("write", 160, "PERPLLCON0") >>
    \o SetPllPowerSteps
    \o << CcuStep("wait", 175, "K2RDY/K3RDY"),
          CcuStep("write", 178, "SYSPLLCON1"),
          CcuStep("write", 183, "PERPLLCON1"),
          CcuStep("wait", 191, "K2RDY/K3RDY"),
          CcuStep("wait", 194, "OSCCON.PLLLV/PLLHV"),
          CcuStep("write", 201, "SYSPLLCON0"),
          CcuStep("write", 202, "PERPLLCON0"),
          CcuStep("wait", 204, "LOCK"),
          CcuStep("write", 214, "SMU.KEYS"),
          CcuStep("write", 215, "SMU.CMD"),
          CcuStep("write", 217, "SMU.AGI8"),
          CcuStep("write", 219, "SMU.KEYS"),
          CcuStep("wait", 229, "CCUCON0.LCK"),
          CcuStep("write", 231, "CCUCON0"),
          CcuStep("wait", 233, "CCUCON0.LCK"),
          CcuStep("set", 236, "-"),
          CcuStep("return", 238, "-") >>

\* modulation_init, lines 241-260
ModulationSteps(c) ==
    (IF c.modulation = "Enabled"
     THEN << CcuStep("clear", 245, "-"),
             CcuStep("write", 248, "SYSPLLCON2"),
             CcuStep("write", 253, "SYSPLLCON0"),
             CcuStep("set", 257, "-") >>
     ELSE << >>)
    \o << CcuStep("return", 259, "-") >>

\* distribute_clock_inline, lines 287-430
DistributeClockSteps(c) ==
    << CcuStep("clear", 288, "-"),
       CcuStep("wait", 297, "CCUCON0.LCK"),
       CcuStep("write", 299, "CCUCON0"),
       CcuStep("wait", 301, "CCUCON0.LCK") >>
    \o (IF ~c.ccucon1_clocks_stopped
        THEN << CcuStep("wait", 329, "CCUCON1.LCK"),
                CcuStep("write", 330, "CCUCON1"),
                CcuStep("wait", 331, "CCUCON1.LCK") >>
        ELSE << >>)
    \o << CcuStep("wait", 339, "CCUCON1.LCK"),
          CcuStep("write", 340, "CCUCON1"),
          CcuStep("wait", 341, "CCUCON1.LCK") >>
    \o (IF ~c.ccucon2_clocks_stopped
        THEN << CcuStep("wait", 359, "CCUCON2.LCK"),
                CcuStep("write", 361, "CCUCON2"),
                CcuStep("wait", 363, "CCUCON2.LCK") >>
        ELSE << >>)
    \o << CcuStep("wait", 371, "CCUCON2.LCK"),
          CcuStep("write", 372, "CCUCON2"),
          CcuStep("wait", 373, "CCUCON2.LCK"),
          CcuStep("wait", 384, "CCUCON5.LCK"),
          CcuStep("write", 386, "CCUCON5"),
          CcuStep("wait", 388, "CCUCON5.LCK"),
          CcuStep("write", 394, "CCUCON6"),
          CcuStep("write", 406, "CCUCON7"),
          CcuStep("write", 418, "CCUCON8"),
          CcuStep("set", 427, "-"),
          CcuStep("return", 429, "-") >>

\* one turn of the loop of throttle_sys_pll_clock_inline, lines 434-445
ThrottleTurn ==
    << CcuStep("clear", 434, "-"), CcuStep("wait", 436, "K2RDY"),
       CcuStep("write", 443, "SYSPLLCON1"), CcuStep("set", 445, "-") >>

RECURSIVE ThrottleTurns(_)
ThrottleTurns(n) == IF n = 0 THEN << >> ELSE ThrottleTurn \o ThrottleTurns(n - 1)

\* throttle_sys_pll_clock_inline, lines 432-448
ThrottleSteps(c) ==
    ThrottleTurns(c.sys_pll_throttle) \o << CcuStep("return", 447, "-") >>

\* the steps of startup function f under config c
CcuSteps(f, c) ==
    CASE f = "configure_ccu_initial_step"    -> ConfigureCcuInitialSteps(c)
      [] f = "modulation_init"               -> ModulationSteps(c)
      [] f = "distribute_clock_inline"       -> DistributeClockSteps(c)
      [] f = "throttle_sys_pll_clock_inline" -> ThrottleSteps(c)

\* the step the running function is at
CcuAt == CcuSteps(ccu_fn, ccu_cfg)[ccu_pc]

CcuRunning == ccu_fn # "-"

\* a step taken, with the safety endinit protection as it is after it; obs
\* is what a wait read at its last poll, empty for the other steps
CcuDone(st, endinit) ==
    [fn |-> ccu_fn, k |-> st.k, line |-> st.line, reg |-> st.reg,
     endinit |-> endinit, obs |-> {}]

\* a wait that ended with the status bits of obs read as 1 at its last poll
CcuWaited(st, endinit, obs) == [CcuDone(st, endinit) EXCEPT !.obs = obs]

\* the function running returns res to init, with the protection as it is
CcuReturned(line, res) ==
    [fn |-> ccu_fn, k |-> "return", line |-> line, reg |-> res,
     endinit |-> safety_endinit, obs |-> {}]

\* init maps the Err of function f to its InitError and returns it (`?`)
InitErrorOf(f) ==
    CASE f = "configure_ccu_initial_step"    -> "ConfigureCCUInitialStep"
      [] f = "modulation_init"               -> "ModulationInit"
      [] f = "distribute_clock_inline"       -> "DistributeClockInline"
      [] f = "throttle_sys_pll_clock_inline" -> "ThrottleSysPllClockInline"

\* the function init calls after f, "-" after the last one
CcuFnAfter(f) ==
    LET k == CHOOSE j \in 1 .. Len(InitOrder) : InitOrder[j] = f
    IN  IF k = Len(InitOrder) THEN "-" ELSE InitOrder[k + 1]

otherVars == <<modVars, nodeVars, msgVars, waitVars, distVars>>

\* init(config) is called
CcuInitCall(c) ==
    /\ ~CcuRunning
    /\ ccu_ret = "-"
    /\ ccu_cfg' = c
    /\ ccu_fn' = InitOrder[1]
    /\ ccu_pc' = 1
    /\ UNCHANGED <<safety_endinit, ccu_log, ccu_ret>>
    /\ UNCHANGED otherVars

\* wdt::clear_safety_endinit_inline()
CcuClearEndinit ==
    /\ CcuRunning
    /\ CcuAt.k = "clear"
    /\ safety_endinit' = FALSE
    /\ ccu_log' = Append(ccu_log, CcuDone(CcuAt, FALSE))
    /\ ccu_pc' = ccu_pc + 1
    /\ UNCHANGED <<ccu_fn, ccu_cfg, ccu_ret>>
    /\ UNCHANGED otherVars

\* wdt::set_safety_endinit_inline()
CcuSetEndinit ==
    /\ CcuRunning
    /\ CcuAt.k = "set"
    /\ safety_endinit' = TRUE
    /\ ccu_log' = Append(ccu_log, CcuDone(CcuAt, TRUE))
    /\ ccu_pc' = ccu_pc + 1
    /\ UNCHANGED <<ccu_fn, ccu_cfg, ccu_ret>>
    /\ UNCHANGED otherVars

\* a register write or modify
CcuWrite ==
    /\ CcuRunning
    /\ CcuAt.k = "write"
    /\ ccu_log' = Append(ccu_log, CcuDone(CcuAt, safety_endinit))
    /\ ccu_pc' = ccu_pc + 1
    /\ UNCHANGED <<ccu_fn, ccu_cfg, safety_endinit, ccu_ret>>
    /\ UNCHANGED otherVars

\* the function returns Err(()) from the step it is at: `?` at that line
CcuFail(obs) ==
    /\ ccu_log' = ccu_log \o << CcuWaited(CcuAt, safety_endinit, obs),
                                CcuReturned(CcuAt.line, "Err") >>
    /\ ccu_ret' = InitErrorOf(ccu_fn)
    /\ ccu_fn' = "-"
    /\ ccu_pc' = 0
    /\ UNCHANGED <<ccu_cfg, safety_endinit>>

\* the status bits the closure of a wait reads: LCK of the register for the
\* wait_ccuconN_lock functions (lines 35-57; wait_ccucon0_lock reads it through
\* the accessor cucon0()), the two LOCK bits at lines 205-207; "busy" stands
\* for the value of the closure of the other waits
CcuReads(reg) ==
    CASE reg \in {"CCUCON0.LCK", "CCUCON1.LCK", "CCUCON2.LCK", "CCUCON5.LCK"}
              -> {"lck"}
      [] reg = "LOCK" -> {"sys.lock", "per.lock"}
      [] OTHER -> {"busy"}

AllCcuReads == {"lck", "sys.lock", "per.lock", "busy"}

\* the closure of the PLL lock wait continues with the selector on the PLL
\* as soon as one lock bit is set
CcuCond_eitherLock(reg, obs) ==
    CASE reg = "LOCK" -> ("sys.lock" \notin obs) /\ ("per.lock" \notin obs)
      [] OTHER -> obs # {}

\* the value of the closure of a wait when it reads the bits of obs as 1:
\* true means wait_cond goes on polling (lines 36-38, 205-207)
CcuCond(reg, obs) ==
    CASE reg = "LOCK" -> ("sys.lock" \notin obs) \/ ("per.lock" \notin obs)
      [] OTHER -> obs # {}

\* a wait that goes on although the closure is still true at its last poll
CcuWait_noTimeout(obs) ==
    /\ CcuRunning
    /\ CcuAt.k = "wait"
    /\ obs \subseteq CcuReads(CcuAt.reg)
    /\ ccu_log' = Append(ccu_log, CcuWaited(CcuAt, safety_endinit, obs))
    /\ ccu_pc' = ccu_pc + 1
    /\ UNCHANGED <<ccu_fn, ccu_cfg, safety_endinit, ccu_ret>>
    /\ UNCHANGED otherVars

\* wait_cond(..)?: obs is what the closure reads at the last poll; the closure
\* is false there and the function goes on, or it was true at every poll of
\* the timeout and the function returns Err (`?`)
CcuWait(obs) ==
    /\ CcuRunning
    /\ CcuAt.k = "wait"
    /\ obs \subseteq CcuReads(CcuAt.reg)
    /\ IF ~CcuCond(CcuAt.reg, obs)
       THEN /\ ccu_log' = Append(ccu_log, CcuWaited(CcuAt, safety_endinit, obs))
            /\ ccu_pc' = ccu_pc + 1
            /\ UNCHANGED <<ccu_fn, ccu_cfg, safety_endinit, ccu_ret>>
       ELSE CcuFail(obs)
    /\ UNCHANGED otherVars

\* lines 134-136: the oscillator value is converted to u8, `?` on failure
CcuCheck ==
    /\ CcuRunning
    /\ CcuAt.k = "check"
    /\ IF OscvalFits(ccu_cfg)
       THEN /\ ccu_log' = Append(ccu_log, CcuDone(CcuAt, safety_endinit))
            /\ ccu_pc' = ccu_pc + 1
            /\ UNCHANGED <<ccu_fn, ccu_cfg, safety_endinit, ccu_ret>>
       ELSE CcuFail({})
    /\ UNCHANGED otherVars

\* the function returns Ok(()); init calls the next one or returns Ok(())
CcuReturn ==
    /\ CcuRunning
    /\ CcuAt.k = "return"
    /\ ccu_log' = Append(ccu_log, CcuReturned(CcuAt.line, "Ok"))
    /\ ccu_fn' = CcuFnAfter(ccu_fn)
    /\ ccu_pc' = IF CcuFnAfter(ccu_fn) = "-" THEN 0 ELSE 1
    /\ ccu_ret' = IF CcuFnAfter(ccu_fn) = "-" THEN "Ok" ELSE ccu_ret
    /\ UNCHANGED <<ccu_cfg, safety_endinit>>
    /\ UNCHANGED otherVars

\* Config as it is before init is called
NoCcuConfig ==
    [ pll_input_clock_selection |-> "F0sc1", xtal_frequency |-> 20000000,
      modulation |-> "Disabled", ccucon1_clocks_stopped |-> TRUE,
      ccucon2_clocks_stopped |-> TRUE, sys_pll_throttle |-> 0 ]

\* before init: no function running, safety endinit protection set
CcuIdle ==
    /\ ccu_fn = "-"
    /\ ccu_pc = 0
    /\ ccu_cfg = NoCcuConfig
    /\ safety_endinit = TRUE
    /\ ccu_log = << >>
    /\ ccu_ret = "-"

\* no status bit read yet
NoObs ==
    [sys_k2rdy |-> FALSE, per_k2rdy |-> FALSE, per_k3rdy |-> FALSE,
     lck |-> FALSE, cond |-> FALSE]

\* no wait_cond running
WaitIdle ==
    /\ w_cond = "-"
    /\ w_n = 0
    /\ w_count = 0
    /\ w_polls = 0
    /\ w_obs = NoObs
    /\ w_ret = "-"

\* the registers distribute_clock_inline writes
CcuconRegs ==
    {"CCUCON0", "CCUCON1", "CCUCON2", "CCUCON5", "CCUCON6", "CCUCON7",
     "CCUCON8"}

\* distribute_clock_inline not called, the registers all clear
DistIdle ==
    /\ ccucon = [r \in CcuconRegs |-> {}]
    /\ ccucon_pre = [r \in CcuconRegs |-> {}]
    /\ clock_distribution = [mask |-> {}, value |-> {}]
    /\ dist_pc = 0
    /\ dist_ret = "-"

\* RXESC after reset: every data field size is 8 bytes
RxescReset == [rbds |-> 0, f0ds |-> 0, f1ds |-> 0]

\* no call made on the node
NoCall == [op |-> "-", arg |-> 0, out |-> 0, wr |-> << >>]

\* before a message is received or sent
MsgIdle ==
    /\ rx_elem = [xtd |-> FALSE, id |-> 0, fdf |-> FALSE, brs |-> FALSE]
    /\ ndat1 = {}
    /\ ndat2 = {}
    /\ txbar = {}
    /\ io = NoCall

-----------------------------------------------------------------------------
(* Messages: the calls on an operational node (can_node/effects.rs) and the *)
(* decoding of a received element (internals/rx.rs)                         *)

\* 1u32 << n for n < 32; a 32 bit word is the set of its bits that are set
Shl1(n) == {n}

\* ReadFrom: where a received element is read from
ReadFroms == {"Buffer", "RxFifo0", "RxFifo1"}

\* the RXESC field get_data_field_size reads for a source (lines 670-675)
SizeCodeOf(from) ==
    CASE from = "Buffer"  -> rxesc.rbds
      [] from = "RxFifo0" -> rxesc.f0ds
      [] from = "RxFifo1" -> rxesc.f1ds

\* the bytes of a data field size code, in u8 arithmetic (lines 677-681)
DataFieldSizeBytes_lateSwitch(size_code) ==
    IF size_code < DataFieldSizeCode("_48")
    THEN U8(U8(size_code + 2) * 4)
    ELSE U8(U8(size_code - 3) * 16)
DataFieldSizeBytes(size_code) ==
    IF size_code < DataFieldSizeCode("_32")
    THEN U8(U8(size_code + 2) * 4)
    ELSE U8(U8(size_code - 3) * 16)

get_data_field_size(from) == DataFieldSizeBytes(SizeCodeOf(from))

\* the local message_lenght of get_message_id (rx.rs lines 29-33)
message_lenght(e) == IF e.xtd THEN "Extended" ELSE "Standard"

\* Rx::get_message_id: the identifier field, shifted right by 18 for a
\* standard identifier
get_message_id_unshifted(e) == e.id
get_message_id(e) ==
    LET shift == IF message_lenght(e) = "Standard" THEN 18 ELSE 0
    IN  e.id \div (2 ^ shift)

\* Rx::get_message_id_lenght
get_message_id_lenght(e) == IF e.xtd THEN "Extended" ELSE "Standard"

\* Rx::get_frame_mode
get_frame_mode_brsOnly(e) ==
    IF e.brs THEN "FdLongAndFast" ELSE IF e.fdf THEN "FdLong" ELSE "Standard"
get_frame_mode(e) ==
    IF e.fdf
    THEN IF e.brs THEN "FdLongAndFast" ELSE "FdLong"
    ELSE "Standard"

\* clear_rx_buffer_new_data_flag(id): the register it writes and the word
\* it writes to it
clear_rx_buffer_new_data_flag_sameWord(id) ==
    [reg |-> "NDAT1", raw |-> Shl1(id % 32)]
clear_rx_buffer_new_data_flag(id) ==
    IF id < 32
    THEN [reg |-> "NDAT1", raw |-> Shl1(id)]
    ELSE [reg |-> "NDAT2", raw |-> Shl1(id - 32)]

\* the register and the mask is_rx_buffer_new_data_updated(id) tests
NewDataTest(id) ==
    IF id < 32
    THEN [reg |-> "NDAT1", data |-> ndat1, mask |-> Shl1(id)]
    ELSE [reg |-> "NDAT2", data |-> ndat2, mask |-> Shl1(id - 32)]

\* is_rx_buffer_new_data_updated(id): (data & mask) != 0
is_rx_buffer_new_data_updated(id) ==
    LET t == NewDataTest(id) IN (t.data \cap t.mask) # {}

\* a write to NDAT1 or NDAT2: the flags written with 1 are cleared, the
\* others keep their value
NdatAfter(reg, flags, w) == IF w.reg = reg THEN flags \ w.raw ELSE flags

\* the legal payload lengths of a frame (the data length codes)
DataLenghtCodes == (0 .. 8) \cup {12, 16, 20, 24, 32, 48, 64}

\* Frame::new(id, data): the frame is built when the length of data is a
\* legal payload length
Frame_new_upTo64(len) == IF len <= 64 THEN "Ok" ELSE "InvalidFrame"
Frame_new(len) == IF len \in DataLenghtCodes THEN "Ok" ELSE "InvalidFrame"

\* the elements a node is made to decode: a standard and an extended
\* identifier, every FDF and BRS
RxIds == {291 * (2 ^ 18) + 5, 218000896}
RxElements == [xtd : BOOLEAN, id : RxIds, fdf : BOOLEAN, brs : BOOLEAN]

\* the RXESC values a node is made to read: every size code in every field
RxescValues ==
    { [rbds |-> c, f0ds |-> (c + 1) % 8, f1ds |-> (c + 2) % 8] : c \in 0 .. 7 }

\* the buffers whose new data flag is followed: the first and the last of
\* NDAT1 and of NDAT2
RxBufferIds == {0, 1, 31, 32, 33, 63}

\* the hardware stores a received message
HwReceive(e) ==
    /\ rx_elem' = e
    /\ io' = NoCall
    /\ UNCHANGED <<ndat1, ndat2, txbar>>
    /\ UNCHANGED <<modVars, nodeVars, ccuVars, waitVars, distVars>>

\* the hardware sets the new data flag of buffer i
HwNewData(i) ==
    /\ ndat1' = IF i < 32 THEN ndat1 \cup {i} ELSE ndat1
    /\ ndat2' = IF i < 32 THEN ndat2 ELSE ndat2 \cup {i - 32}
    /\ io' = NoCall
    /\ UNCHANGED <<rx_elem, txbar>>
    /\ UNCHANGED <<modVars, nodeVars, ccuVars, waitVars, distVars>>

\* a call that reads and returns: nothing is written
Returns(op, arg, out) ==
    /\ io' = [op |-> op, arg |-> arg, out |-> out, wr |-> << >>]
    /\ UNCHANGED <<rx_elem, ndat1, ndat2, txbar>>
    /\ UNCHANGED <<modVars, nodeVars, ccuVars, waitVars, distVars>>

GetDataFieldSize(from) ==
    Returns("get_data_field_size", from, get_data_field_size(from))

GetMessageId == Returns("get_message_id", 0, get_message_id(rx_elem))

GetMessageIdLenght ==
    Returns("get_message_id_lenght", 0, get_message_id_lenght(rx_elem))

GetFrameMode == Returns("get_frame_mode", 0, get_frame_mode(rx_elem))

IsRxBufferNewDataUpdated(i) ==
    Returns("is_rx_buffer_new_data_updated", i, is_rx_buffer_new_data_updated(i))

ClearRxBufferNewDataFlag(i) ==
    LET w == clear_rx_buffer_new_data_flag(i)
    IN  /\ ndat1' = NdatAfter("NDAT1", ndat1, w)
        /\ ndat2' = NdatAfter("NDAT2", ndat2, w)
        /\ io' = [op |-> "clear_rx_buffer_new_data_flag", arg |-> i, out |-> 0,
                  wr |-> <<w>>]
        /\ UNCHANGED <<rx_elem, txbar>>
        /\ UNCHANGED <<modVars, nodeVars, ccuVars, waitVars, distVars>>

FrameNew(len) == Returns("Frame::new", len, Frame_new(len))

\* CanNode::transmit(&frame), frame built from a payload of len bytes:
\* returns Ok(()) (lines 454-457)
Transmit(len) == Returns("transmit", len, "Ok")

-----------------------------------------------------------------------------
(* Specifications *)

\* CCCR states a node can be found in: INIT and CCE as left by reset or by an
\* earlier user of the peripheral; no INIT write is in flight
CccrInits ==
    { [init |-> i, cce |-> c, fdoe |-> FALSE, brse |-> FALSE] :
        i \in BOOLEAN, c \in BOOLEAN }

InitNodeRegs ==
    /\ pc = "idle"
    /\ cfg = DefaultConfig
    /\ init_req = cccr.init
    /\ nbtp = [nbrp |-> 0, nsjw |-> 0, ntseg1 |-> 0, ntseg2 |-> 0]
    /\ dbtp = [dbrp |-> 0, dsjw |-> 0, dtseg1 |-> 0, dtseg2 |-> 0, tdc |-> FALSE]
    /\ tdcr = [tdco |-> 0]
    /\ txesc = [tbds |-> 0]
    /\ txbc = [tbsa |-> 0, tfqm |-> FALSE, tfqs |-> 0]
    /\ txbtie = {}
    /\ rxesc = RxescReset
    /\ rxf0c = [f0sa |-> 0, f0s |-> 0, f0om |-> FALSE, f0wm |-> 0]
    /\ log = <<>>
    /\ ret = "-"

\* Module::new: a disabled module, no node taken
Init ==
    /\ modState = "Disabled"
    /\ clc = [disr |-> TRUE, diss |-> TRUE]
    /\ cpu_endinit = TRUE
    /\ nodes_taken = NoneTaken
    /\ mcr = [clksel |-> [i \in Slots |-> 0], ccce |-> FALSE, ci |-> FALSE]
    /\ handles = [i \in Slots |-> 0]
    /\ refused = {}
    /\ call = [op |-> "new", node |-> 0, made |-> "-"]
    /\ pre_taken = NoneTaken
    /\ result = "Disabled"
    /\ panicked = FALSE
    /\ node_id = 0
    /\ cccr = [init |-> FALSE, cce |-> FALSE, fdoe |-> FALSE, brse |-> FALSE]
    /\ InitNodeRegs
    /\ CcuIdle
    /\ MsgIdle
    /\ WaitIdle
    /\ DistIdle

Next ==
    \/ EnableStart
    \/ HwClc
    \/ EnableFinish
    \/ \E i \in NodeIndices, c \in TakeConfigs, s \in BOOLEAN : TakeNode(i, c, s)

Spec == Init /\ [][Next]_vars

\* MCR as configure finds it: no clock change in progress, every node on
\* some clock source
McrInits ==
    { [clksel |-> [i \in Slots |-> 3 - (i % 3)], ccce |-> FALSE, ci |-> FALSE] }

\* the nodes configure is tried on: the first and the last
ConfiguredNodes == {0, NumNodes - 1}

\* An enabled module has handed out the handle of node node_id (CanNode::new)
InitNode ==
    /\ modState = "Enabled"
    /\ clc = [disr |-> FALSE, diss |-> FALSE]
    /\ cpu_endinit = TRUE
    /\ node_id \in ConfiguredNodes
    /\ nodes_taken = [i \in Slots |-> i = node_id]
    /\ handles = [i \in Slots |-> IF i = node_id THEN 1 ELSE 0]
    /\ mcr \in McrInits
    /\ refused = {}
    /\ call = [op |-> "take_node", node |-> node_id, made |-> "Ok"]
    /\ pre_taken = NoneTaken
    /\ result = "Some"
    /\ panicked = FALSE
    /\ cccr \in CccrInits
    /\ InitNodeRegs
    /\ CcuIdle
    /\ MsgIdle
    /\ WaitIdle
    /\ DistIdle

NextNode ==
    \/ \E c \in NodeConfigs : ConfigureCall(c)
    \/ \E s \in BOOLEAN : CfgClock(s)
    \/ EccRead \/ EccClrCce \/ EccPollCce \/ EccClrInit \/ EccPollInitClear
    \/ EccSetInit \/ EccPollInitSet \/ EccSetCce
    \/ CfgBaudRate \/ CfgFastBaudRate \/ CfgTxBuffer \/ CfgFrameMode
    \/ DccClrCce \/ DccPollCce \/ DccClrInit \/ DccPollInit
    \/ CfgRxFifo0 \/ CfgTxFifo
    \/ HwInit

SpecNode == InitNode /\ [][NextNode]_vars

-----------------------------------------------------------------------------
(* From a disabled module to a configured node, with the scheduling of the *)
(* program and of the hardware                                             *)

\* the configurations the whole run is tried with: every clock source, frame
\* mode and frame type
RunConfigs ==
    { [DefaultConfig EXCEPT !.clock_source = cs, !.frame_mode = fm,
                            !.frame_type = ft] :
        cs \in ClockSources, fm \in FrameModes, ft \in FrameTypes }

\* Module::new: a disabled module; the node's CCCR as reset or an earlier
\* user left it
InitRun ==
    /\ modState = "Disabled"
    /\ clc = [disr |-> TRUE, diss |-> TRUE]
    /\ cpu_endinit = TRUE
    /\ nodes_taken = NoneTaken
    /\ mcr = [clksel |-> [i \in Slots |-> 0], ccce |-> FALSE, ci |-> FALSE]
    /\ handles = [i \in Slots |-> 0]
    /\ refused = {}
    /\ call = [op |-> "new", node |-> 0, made |-> "-"]
    /\ pre_taken = NoneTaken
    /\ result = "Disabled"
    /\ panicked = FALSE
    /\ node_id = 0
    /\ cccr \in CccrInits
    /\ InitNodeRegs
    /\ CcuIdle
    /\ MsgIdle
    /\ WaitIdle
    /\ DistIdle

\* take_node is called between calls of configure, never inside one
RunTakeNode(c, switched) ==
    /\ pc \in {"idle", "done"}
    /\ TakeNode(node_id, c, switched)

\* the steps a call that has started takes by itself
ProgramStep ==
    \/ EnableFinish
    \/ \E s \in BOOLEAN : CfgClock(s)
    \/ EccRead \/ EccClrCce \/ EccPollCce \/ EccClrInit \/ EccPollInitClear
    \/ EccSetInit \/ EccPollInitSet \/ EccSetCce
    \/ CfgBaudRate \/ CfgFastBaudRate \/ CfgTxBuffer \/ CfgFrameMode
    \/ DccClrCce \/ DccPollCce \/ DccClrInit \/ DccPollInit
    \/ CfgRxFifo0 \/ CfgTxFifo

NextRun ==
    \/ EnableStart
    \/ \E c \in TakeConfigs, s \in BOOLEAN : RunTakeNode(c, s)
    \/ \E c \in RunConfigs : ConfigureCall(c)
    \/ ProgramStep
    \/ HwClc
    \/ HwInit

\* A call that has started keeps running (the program is single threaded and
\* nothing preempts it for ever), and the hardware acknowledges every request.
\* Nothing obliges the caller to start a call.
RunFairness ==
    /\ WF_vars(ProgramStep)
    /\ WF_vars(HwClc)
    /\ WF_vars(HwInit)

SpecRun == InitRun /\ [][NextRun]_vars /\ RunFairness

-----------------------------------------------------------------------------
(* The clock startup alone *)

\* the CAN module and node as Module::new leaves them; only init runs
InitCcu ==
    /\ modState = "Disabled"
    /\ clc = [disr |-> TRUE, diss |-> TRUE]
    /\ cpu_endinit = TRUE
    /\ nodes_taken = NoneTaken
    /\ mcr = [clksel |-> [i \in Slots |-> 0], ccce |-> FALSE, ci |-> FALSE]
    /\ handles = [i \in Slots |-> 0]
    /\ refused = {}
    /\ call = [op |-> "new", node |-> 0, made |-> "-"]
    /\ pre_taken = NoneTaken
    /\ result = "Disabled"
    /\ panicked = FALSE
    /\ node_id = 0
    /\ cccr = [init |-> FALSE, cce |-> FALSE, fdoe |-> FALSE, brse |-> FALSE]
    /\ InitNodeRegs
    /\ CcuIdle
    /\ MsgIdle
    /\ WaitIdle
    /\ DistIdle

NextCcu ==
    \/ \E c \in CcuConfigs : CcuInitCall(c)
    \/ CcuClearEndinit
    \/ CcuSetEndinit
    \/ CcuWrite
    \/ \E obs \in SUBSET AllCcuReads : CcuWait(obs)
    \/ CcuCheck
    \/ CcuReturn

SpecCcu == InitCcu /\ [][NextCcu]_vars

-----------------------------------------------------------------------------
(* An operational node: decoding of received elements (SpecRx), new data *)
(* flags, frames and transmit (SpecBuf)                                   *)

\* largest payload length Frame::new is tried with
MaxPayloadLen == 66

\* configure has returned the CanNode of node 0
Operational ==
    /\ modState = "Enabled"
    /\ clc = [disr |-> FALSE, diss |-> FALSE]
    /\ cpu_endinit = TRUE
    /\ node_id = 0
    /\ nodes_taken = [i \in Slots |-> i = node_id]
    /\ handles = [i \in Slots |-> IF i = node_id THEN 1 ELSE 0]
    /\ mcr \in McrInits
    /\ refused = {}
    /\ call = [op |-> "take_node", node |-> node_id, made |-> "Ok"]
    /\ pre_taken = NoneTaken
    /\ result = "Some"
    /\ panicked = FALSE
    /\ cccr = [init |-> FALSE, cce |-> FALSE, fdoe |-> FALSE, brse |-> FALSE]
    /\ pc = "done"
    /\ cfg = DefaultConfig
    /\ init_req = cccr.init
    /\ nbtp = [nbrp |-> 0, nsjw |-> 0, ntseg1 |-> 0, ntseg2 |-> 0]
    /\ dbtp = [dbrp |-> 0, dsjw |-> 0, dtseg1 |-> 0, dtseg2 |-> 0, tdc |-> FALSE]
    /\ tdcr = [tdco |-> 0]
    /\ txesc = [tbds |-> 0]
    /\ txbc = [tbsa |-> TxFifoData.start_address \div 4, tfqm |-> TRUE,
               tfqs |-> TxFifoData.fifo_size]
    /\ txbtie = 0 .. (TxFifoData.fifo_size - 1)
    /\ rxf0c = [f0sa |-> RxFifo0Data.start_address \div 4,
                f0s |-> RxFifo0Data.size, f0om |-> FALSE, f0wm |-> 0]
    /\ log = << >>
    /\ ret = "Ok"
    /\ CcuIdle
    /\ WaitIdle
    /\ DistIdle

\* the size codes of RXESC and the element in message RAM are inputs
InitRx ==
    /\ Operational
    /\ rxesc \in RxescValues
    /\ rx_elem \in RxElements
    /\ ndat1 = {}
    /\ ndat2 = {}
    /\ txbar = {}
    /\ io = NoCall

NextRx ==
    \/ \E e \in RxElements : HwReceive(e)
    \/ \E from \in ReadFroms : GetDataFieldSize(from)
    \/ GetMessageId
    \/ GetMessageIdLenght
    \/ GetFrameMode

SpecRx == InitRx /\ [][NextRx]_vars

InitBuf ==
    /\ Operational
    /\ rxesc = RxescReset
    /\ MsgIdle

NextBuf ==
    \/ \E i \in RxBufferIds : HwNewData(i)
    \/ \E i \in RxBufferIds : ClearRxBufferNewDataFlag(i)
    \/ \E i \in RxBufferIds : IsRxBufferNewDataUpdated(i)
    \/ \E len \in 0 .. MaxPayloadLen : FrameNew(len)
    \/ \E len \in DataLenghtCodes : Transmit(len)

SpecBuf == InitBuf /\ [][NextBuf]_vars

-----------------------------------------------------------------------------
(* The TX registers of a node: data field size and FIFO/queue mode (SpecTx) *)

TxModes == {"DedicatedBuffers", "Fifo", "Queue", "SharedFifo", "SharedQueue"}

\* raw & 0x2 for a raw value below 8
And2(raw) == ((raw \div 2) % 2) * 2

\* get_tx_buffer_data_field_size: the size code is TXESC.get_raw() & 0x2
\* (TBDS is bits 2:0 of TXESC, the other bits read 0), then the mapping of
\* get_data_field_size
get_tx_buffer_data_field_size ==
    LET size_code == U8(And2(txesc.tbds))
    IN  IF size_code < DataFieldSizeCode("_32")
        THEN U8(U8(size_code + 2) * 4)
        ELSE U8(U8(size_code - 3) * 16)

\* NewCanNode::set_transmit_fifo_queue_mode (can_node.rs): the TFQM value
\* written for Fifo and for Queue, "panic" for the other modes
set_transmit_fifo_queue_mode(mode) ==
    IF mode \in {"Fifo", "Queue"} THEN (TxModeCode(mode) # 0) ELSE "panic"

\* set_transmit_fifo_queue_mode of effects.rs: the TFQM value written
effects_set_transmit_fifo_queue_mode(mode) == mode # "DedicatedBuffers"

\* set_tx_buffer_data_field_size(tdbs)
SetTxBufferDataFieldSize(c) ==
    /\ ~panicked
    /\ txesc' = TbdsSet(c)
    /\ io' = [op |-> "set_tx_buffer_data_field_size", arg |-> c, out |-> 0,
              wr |-> <<[reg |-> "TXESC", raw |-> txesc']>>]
    /\ UNCHANGED <<pc, node_id, cfg, cccr, init_req, nbtp, dbtp, tdcr, txbc,
                   txbtie, rxesc, rxf0c, log, ret>>
    /\ UNCHANGED <<rx_elem, ndat1, ndat2, txbar>>
    /\ UNCHANGED <<modVars, ccuVars, waitVars, distVars>>

GetTxBufferDataFieldSize ==
    /\ ~panicked
    /\ Returns("get_tx_buffer_data_field_size", 0, get_tx_buffer_data_field_size)

\* a write of TXBC.TFQM by call op
TfqmWrite(op, mode, val) ==
    /\ txbc' = [txbc EXCEPT !.tfqm = val]
    /\ io' = [op |-> op, arg |-> mode, out |-> val,
              wr |-> <<[reg |-> "TXBC", raw |-> [tfqm |-> val]]>>]
    /\ UNCHANGED <<pc, node_id, cfg, cccr, init_req, nbtp, dbtp, tdcr, txesc,
                   txbtie, rxesc, rxf0c, log, ret>>
    /\ UNCHANGED <<rx_elem, ndat1, ndat2, txbar>>
    /\ UNCHANGED <<modState, clc, cpu_endinit, nodes_taken, mcr, handles,
                   refused, call, pre_taken, result, panicked>>
    /\ UNCHANGED <<ccuVars, waitVars, distVars>>

\* NewCanNode::set_transmit_fifo_queue_mode(mode)
SetTransmitFifoQueueMode(mode) ==
    /\ ~panicked
    /\ LET val == set_transmit_fifo_queue_mode(mode)
       IN  IF mode \in {"Fifo", "Queue"}
           THEN TfqmWrite("set_transmit_fifo_queue_mode", mode, val)
           ELSE \* panic!("invalid fifo queue mode")
                /\ panicked' = TRUE
                /\ io' = [op |-> "set_transmit_fifo_queue_mode", arg |-> mode,
                          out |-> "panic", wr |-> << >>]
                /\ UNCHANGED <<modState, clc, cpu_endinit, nodes_taken, mcr,
                               handles, refused, call, pre_taken, result>>
                /\ UNCHANGED <<rx_elem, ndat1, ndat2, txbar>>
                /\ UNCHANGED <<nodeVars, ccuVars, waitVars, distVars>>

\* set_transmit_fifo_queue_mode(mode) of effects.rs
EffectsSetTransmitFifoQueueMode(mode) ==
    /\ ~panicked
    /\ TfqmWrite("effects.set_transmit_fifo_queue_mode", mode,
                 effects_set_transmit_fifo_queue_mode(mode))

\* a node handed out and not yet configured
InitTx == InitNode

NextTx ==
    \/ \E c \in 0 .. 7 : SetTxBufferDataFieldSize(c)
    \/ GetTxBufferDataFieldSize
    \/ \E m \in TxModes : SetTransmitFifoQueueMode(m)
    \/ \E m \in TxModes : EffectsSetTransmitFifoQueueMode(m)

SpecTx == InitTx /\ [][NextTx]_vars

-----------------------------------------------------------------------------
(* wait_cond and the conditions it is called with (SpecWait) *)

\* largest timeout_cycle_count wait_cond is tried with
MaxTimeout == 4

\* the conditions: an LCK bit still set (wait_ccucon0_lock .. 5_lock), the
\* closure of wait_divider
WaitConds == {"lck", "divider"}

\* the status bits one evaluation of cond can read
StatusBits ==
    [sys_k2rdy : BOOLEAN, per_k2rdy : BOOLEAN, per_k3rdy : BOOLEAN,
     lck : BOOLEAN]

\* the closure of wait_divider: per_k2 is read from sys (line 64)
divider_not_ready(hw) ==
    LET sys_k2 == hw.sys_k2rdy
        per_k2 == hw.sys_k2rdy
        per_k3 == hw.per_k3rdy
    IN  sys_k2 = FALSE \/ per_k2 = FALSE \/ per_k3 = FALSE

\* cond() on the status bits hw
CondOf(c, hw) == IF c = "lck" THEN hw.lck ELSE divider_not_ready(hw)

\* wait_cond(n, cond) is called
WaitCall(n, c) ==
    /\ w_cond = "-"
    /\ w_cond' = c
    /\ w_n' = n
    /\ w_count' = n
    /\ w_polls' = 0
    /\ w_obs' = NoObs
    /\ w_ret' = "-"
    /\ UNCHANGED <<modVars, nodeVars, ccuVars, msgVars, distVars>>

\* what one turn of the loop does with the value v of cond(): the new
\* countdown and the result, "-" when the loop goes on (lines 454-461)
WaitTurn_lateTimeout(count, v) ==
    IF v
    THEN [count |-> count - 1, ret |-> IF count - 1 < 0 THEN "Err" ELSE "-"]
    ELSE [count |-> count, ret |-> "Ok"]
WaitTurn(count, v) ==
    IF v
    THEN [count |-> count - 1, ret |-> IF count - 1 = 0 THEN "Err" ELSE "-"]
    ELSE [count |-> count, ret |-> "Ok"]

\* one evaluation of cond() on the status bits the hardware shows
WaitPoll(hw) ==
    /\ w_cond # "-"
    /\ w_ret = "-"
    /\ LET v == CondOf(w_cond, hw)
           t == WaitTurn(w_count, v)
       IN  /\ w_obs' = [sys_k2rdy |-> hw.sys_k2rdy, per_k2rdy |-> hw.per_k2rdy,
                        per_k3rdy |-> hw.per_k3rdy, lck |-> hw.lck, cond |-> v]
           /\ w_polls' = w_polls + 1
           /\ w_count' = t.count
           /\ w_ret' = t.ret
    /\ UNCHANGED <<w_cond, w_n>>
    /\ UNCHANGED <<modVars, nodeVars, ccuVars, msgVars, distVars>>

Polling == \E hw \in StatusBits : WaitPoll(hw)

InitWait == InitCcu

NextWait ==
    \/ \E n \in 1 .. MaxTimeout, c \in WaitConds : WaitCall(n, c)
    \/ Polling

\* the loop of wait_cond keeps running until it returns
SpecWait == InitWait /\ [][NextWait]_vars /\ WF_vars(Polling)

-----------------------------------------------------------------------------
(* distribute_clock_inline on the register values (SpecDist).  A register  *)
(* word is the set of its bit positions that are 1.                        *)

\* the register values the function is started on: every register holds the
\* same word of this set
InitialWords ==
    { {}, {0}, {20, 29}, {0, 20, 29}, {0, 4, 12}, {0, 12, 20, 29},
      {5, 13, 21, 28, 30}, {0, 4, 5, 12, 13, 20, 21, 28, 29, 30} }

\* the masks and values of config.clock_distribution, the same for every
\* register
DistMasks == { {}, {0}, {0, 4, 5, 12, 13}, {0, 4, 5, 12, 13, 20, 21, 28, 29} }
DistValues == { {}, {0, 12}, {4, 20, 29}, {0, 5, 13, 21, 28} }

\* the fields the function sets by name; positions of the register crate
Clkselmcan == {4, 5}
Clkselmsc == {20, 21}
Clkselqspi == {28, 29}
Clkselasclins == {12, 13}
Up == {30}

\* the lowest position of field f
FieldLow(f) == CHOOSE p \in f : \A q \in f : p <= q

\* the value of the two bit field f of word w
GetField(w, f) ==
    (IF FieldLow(f) \in w THEN 1 ELSE 0) + (IF FieldLow(f) + 1 \in w THEN 2 ELSE 0)

\* word w with field f set to val
SetField(w, f, val) ==
    (w \ f) \cup { p \in f : (val \div (2 ^ (p - FieldLow(f)))) % 2 = 1 }

\* lines 306-308: the three clock selectors of CCUCON1 compared with
\* Clkselmcan::CONST_00, Clkselmsc::CONST_11 and Clkselqspi::CONST_22
Ccucon1Stopped(w) ==
    /\ GetField(w, Clkselmcan) = 0
    /\ GetField(w, Clkselmsc) = 1
    /\ GetField(w, Clkselqspi) = 2

\* line 347: the selector of CCUCON2 compared with Clkselasclins::CONST_00
Ccucon2Stopped(w) == GetField(w, Clkselasclins) = 0

\* `&= !mask` then `|= mask & value` (lines 293-295 and alike)
Masked(w, d) == (w \ d.mask) \cup (d.mask \cap d.value)

\* lines 351-353: `&= !mask` then `= mask & value`
Assigned(w, d) == d.mask \cap d.value

\* the word the write of the given line stores, from the registers as they
\* are and the clock distribution d
DistValue(line, regs, d) ==
    CASE line = 299 -> Masked(regs["CCUCON0"], d)
      [] line = 330 ->
            SetField(SetField(SetField(Masked(regs["CCUCON1"], d),
                Clkselmcan, 0), Clkselmsc, 1), Clkselqspi, 2)
      [] line = 340 -> Masked(regs["CCUCON1"], d)
      [] line = 361 -> SetField(Assigned(regs["CCUCON2"], d), Clkselasclins, 0)
      [] line = 372 -> Masked(regs["CCUCON2"], d)
      [] line = 386 -> Masked(regs["CCUCON5"], d) \cup Up
      [] line = 394 -> Masked(regs["CCUCON6"], d)
      [] line = 406 -> Masked(regs["CCUCON7"], d)
      [] line = 418 -> Masked(regs["CCUCON8"], d)

\* the steps of the function on the registers it was called with
DistSteps ==
    DistributeClockSteps(
        [NoCcuConfig EXCEPT
            !.ccucon1_clocks_stopped = Ccucon1Stopped(ccucon_pre["CCUCON1"]),
            !.ccucon2_clocks_stopped = Ccucon2Stopped(ccucon_pre["CCUCON2"])])

DistAt == DistSteps[dist_pc]

DistRunning == dist_pc > 0

distOtherVars == <<modVars, nodeVars, ccuVars, msgVars, waitVars>>

\* distribute_clock_inline(config) is called
DistCall(d) ==
    /\ ~DistRunning
    /\ dist_ret = "-"
    /\ clock_distribution' = d
    /\ ccucon_pre' = ccucon
    /\ dist_pc' = 1
    /\ UNCHANGED <<ccucon, dist_ret>>
    /\ UNCHANGED distOtherVars

\* safety endinit is cleared (line 288) or set (line 427)
DistEndinit ==
    /\ DistRunning
    /\ DistAt.k \in {"clear", "set"}
    /\ dist_pc' = dist_pc + 1
    /\ UNCHANGED <<ccucon, ccucon_pre, clock_distribution, dist_ret>>
    /\ UNCHANGED distOtherVars

\* wait_ccuconN_lock()?: LCK is read clear in time, or the function returns Err
DistWait(in_time) ==
    /\ DistRunning
    /\ DistAt.k = "wait"
    /\ dist_pc' = IF in_time THEN dist_pc + 1 ELSE 0
    /\ dist_ret' = IF in_time THEN dist_ret ELSE "Err"
    /\ UNCHANGED <<ccucon, ccucon_pre, clock_distribution>>
    /\ UNCHANGED distOtherVars

\* a register is written
DistWrite ==
    /\ DistRunning
    /\ DistAt.k = "write"
    /\ ccucon' = [ccucon EXCEPT
                     ![DistAt.reg] = DistValue(DistAt.line, ccucon,
                                               clock_distribution)]
    /\ dist_pc' = dist_pc + 1
    /\ UNCHANGED <<ccucon_pre, clock_distribution, dist_ret>>
    /\ UNCHANGED distOtherVars

\* the function returns Ok(())
DistReturn ==
    /\ DistRunning
    /\ DistAt.k = "return"
    /\ dist_pc' = 0
    /\ dist_ret' = "Ok"
    /\ UNCHANGED <<ccucon, ccucon_pre, clock_distribution>>
    /\ UNCHANGED distOtherVars

\* the registers hold any of the initial words when the function is called
InitDist ==
    /\ modState = "Disabled"
    /\ clc = [disr |-> TRUE, diss |-> TRUE]
    /\ cpu_endinit = TRUE
    /\ nodes_taken = NoneTaken
    /\ mcr = [clksel |-> [i \in Slots |-> 0], ccce |-> FALSE, ci |-> FALSE]
    /\ handles = [i \in Slots |-> 0]
    /\ refused = {}
    /\ call = [op |-> "new", node |-> 0, made |-> "-"]
    /\ pre_taken = NoneTaken
    /\ result = "Disabled"
    /\ panicked = FALSE
    /\ node_id = 0
    /\ cccr = [init |-> FALSE, cce |-> FALSE, fdoe |-> FALSE, brse |-> FALSE]
    /\ InitNodeRegs
    /\ CcuIdle
    /\ MsgIdle
    /\ WaitIdle
    /\ \E w \in InitialWords : ccucon = [r \in CcuconRegs |-> w]
    /\ ccucon_pre = [r \in CcuconRegs |-> {}]
    /\ clock_distribution = [mask |-> {}, value |-> {}]
    /\ dist_pc = 0
    /\ dist_ret = "-"

NextDist ==
    \/ \E m \in DistMasks, v \in DistValues :
           DistCall([mask |-> m, value |-> v])
    \/ DistEndinit
    \/ \E t \in BOOLEAN : DistWait(t)
    \/ DistWrite
    \/ DistReturn

SpecDist == InitDist /\ [][NextDist]_vars

-----------------------------------------------------------------------------
(* Claims about the module ownership gate, checked under Spec *)

LastTake == call.op = "take_node" /\ call.node \in Slots

\* C1: take_node on a slot whose flag is already set returns no node and
\* leaves all four nodes_taken flags as they were.
C1_ReclaimRefused ==
    (LastTake /\ pre_taken[call.node])
        => (result = "None" /\ nodes_taken = pre_taken)

C1_Witness ==
    /\ LastTake
    /\ pre_taken[call.node]
    /\ result = "None"
    /\ handles[call.node] = 1

\* C2: over any sequence of take_node calls at most one call per slot
\* returns a node handle.
C2_OneHandlePerSlot == \A i \in Slots : handles[i] <= 1

C2_Witness ==
    \E i \in Slots : handles[i] = 1 /\ i \in refused

\* C3: a claimed slot stays claimed: no step turns a nodes_taken flag from
\* true to false, and no step hands out a handle for a claimed slot.
C3_ClaimIsPermanent ==
    [][\A i \in Slots :
          nodes_taken[i] => (nodes_taken'[i] /\ handles'[i] = handles[i])]_vars

C3_Witness ==
    \E i \in Slots :
        /\ nodes_taken[i]
        /\ i \in refused
        /\ LastTake /\ call.node # i /\ ~pre_taken[call.node] /\ pre_taken[i]

\* C4: claiming slot i changes only nodes_taken[i]; a call is refused without
\* creating a node only if its own slot was claimed, so after claim(0) and a
\* refused second claim(0), claim(1) is still served.
C4_ClaimFrame ==
    LastTake =>
        /\ \A j \in Slots \ {call.node} : nodes_taken[j] = pre_taken[j]
        /\ nodes_taken[call.node]
        /\ (call.made = "-") <=> pre_taken[call.node]

C4_Witness ==
    /\ LastTake /\ call.node = 1 /\ result = "Some"
    /\ pre_taken = [j \in Slots |-> j = 0]
    /\ refused = {0}
    /\ handles = [j \in Slots |-> IF j \in {0, 1} THEN 1 ELSE 0]

\* C5: whenever take_node returns no node handle, for any reason, the
\* nodes_taken flags are the same as before the call.
C5_FailedClaimLeavesFlags ==
    (LastTake /\ result = "None") => nodes_taken = pre_taken

-----------------------------------------------------------------------------
(* Claims about NewCanNode::configure, checked under SpecNode *)

\* the accesses of the running configure made inside call fn
LogOf(fn) == SelectSeq(log, LAMBDA e : e.fn = fn)

\* what was done, without the CCCR snapshot
Ops(l) == [k \in 1 .. Len(l) |-> <<l[k].op, l[k].val>>]

IsPrefix(a, b) ==
    /\ Len(a) <= Len(b)
    /\ \A k \in 1 .. Len(a) : a[k] = b[k]

EccPcs ==
    {"enable_configuration_change", "ecc_clr_cce", "ecc_poll_cce", "ecc_clr_init",
     "ecc_poll_init_clear", "ecc_set_init", "ecc_poll_init_set", "ecc_set_cce"}

DccPcs ==
    {"disable_configuration_change", "dcc_poll_cce", "dcc_clr_init",
     "dcc_poll_init"}

EccReturned == LogOf("enable_configuration_change") # <<>> /\ pc \notin EccPcs
DccReturned == LogOf("disable_configuration_change") # <<>> /\ pc \notin DccPcs

\* the registers whose writes effects.rs documents as CCE and INIT protected
ProtectedWrite(e) ==
    /\ e.op = "write"
    /\ \/ e.reg \in {"NBTP", "DBTP", "TDCR", "TXESC", "TXBC", "RXESC", "RXF0C"}
       \/ e.reg = "CCCR" /\ e.fn = "set_frame_mode"

\* C6: during configure every write to a CCE/INIT-protected node register is
\* made while INIT and CCE both read set.
C6_ProtectedWritesInWindow ==
    \A k \in 1 .. Len(log) :
        ProtectedWrite(log[k]) => (log[k].init /\ log[k].cce)

SetsCce(e) ==
    /\ e.op = "write"
    /\ e.reg = "CCCR"
    /\ "cce" \in DOMAIN e.val
    /\ e.val.cce

\* C7: enable_configuration_change writes CCE = 1 only while INIT reads set,
\* and its last write has both INIT and CCE set, which is what the register
\* holds when it returns.
C7_CceOnlyAfterInit ==
    /\ \A k \in 1 .. Len(log) : SetsCce(log[k]) => log[k].init
    /\ EccReturned =>
          LET e == LogOf("enable_configuration_change")
          IN  /\ e[Len(e)].op = "write"
              /\ e[Len(e)].val = [cce |-> TRUE, init |-> TRUE]
    /\ (EccReturned /\ log[Len(log)].fn = "enable_configuration_change")
          => (cccr.init /\ cccr.cce /\ init_req)

C7_Witness ==
    /\ pc = "configure_baud_rate"
    /\ Len(LogOf("enable_configuration_change")) = 4
    /\ cccr.init /\ cccr.cce

EccNormal ==
    << <<"write", [init |-> TRUE]>>, <<"poll", [init |-> TRUE]>>,
       <<"write", [cce |-> TRUE, init |-> TRUE]>> >>

EccClearing ==
    << <<"write", [cce |-> FALSE]>>, <<"poll", [cce |-> FALSE]>>,
       <<"write", [init |-> FALSE]>>, <<"poll", [init |-> FALSE]>> >>

\* C8: if INIT reads set on entry, enable_configuration_change clears CCE,
\* polls it clear, clears INIT, polls it clear, and only then runs the normal
\* sequence (set INIT, poll, set CCE); if INIT reads clear the clearing steps
\* are skipped.
C8_ClearBeforeEnable ==
    LET e == LogOf("enable_configuration_change")
        expected ==
            IF e[1].val.init
            THEN << <<"read", [init |-> TRUE]>> >> \o EccClearing \o EccNormal
            ELSE << <<"read", [init |-> FALSE]>> >> \o EccNormal
    IN  e # <<>> =>
          /\ IsPrefix(Ops(e), expected)
          /\ EccReturned => Ops(e) = expected

C8_Witness ==
    /\ pc = "configure_baud_rate"
    /\ Len(LogOf("enable_configuration_change")) = 8

\* C9: disable_configuration_change clears CCE, sees CCE read clear, then
\* clears INIT and returns only after INIT reads clear; when configure has
\* returned Ok, CCE and INIT both read cleared.
C9_DisableThenRunning ==
    LET d == LogOf("disable_configuration_change")
        expected ==
            << <<"write", [cce |-> FALSE]>>, <<"poll", [cce |-> FALSE]>>,
               <<"write", [init |-> FALSE]>>, <<"poll", [init |-> FALSE]>> >>
    IN  /\ IsPrefix(Ops(d), expected)
        /\ DccReturned => (Ops(d) = expected /\ ~cccr.cce /\ ~cccr.init)
        /\ ret = "Ok" => (DccReturned /\ ~cccr.cce /\ ~cccr.init)

C9_Witness ==
    /\ ret = "Ok"
    /\ pc = "done"
    /\ Len(LogOf("disable_configuration_change")) = 4
    /\ ~cccr.cce /\ ~cccr.init

\* the configuration steps of the claim, numbered in the order it gives:
\* clock source, nominal timing, fast timing, frame-mode flags, TX RAM
\* layout, RX RAM layout
ClaimedRank(fn) ==
    CASE fn = "set_clock_source"         -> 1
      [] fn = "configure_baud_rate"      -> 2
      [] fn = "configure_fast_baud_rate" -> 3
      [] fn = "set_frame_mode"           -> 4
      [] fn = "tx_buffer"                -> 5
      [] fn = "set_tx_fifo"              -> 5
      [] fn = "set_rx_fifo0"             -> 6

\* the order the code applies them in
CodeRank(fn) ==
    CASE fn = "set_clock_source"         -> 1
      [] fn = "configure_baud_rate"      -> 2
      [] fn = "configure_fast_baud_rate" -> 3
      [] fn = "tx_buffer"                -> 4
      [] fn = "set_frame_mode"           -> 5
      [] fn = "set_rx_fifo0"             -> 6
      [] fn = "set_tx_fifo"              -> 7

HandshakeFns == {"enable_configuration_change", "disable_configuration_change"}

\* the accesses of the configuration steps proper
StepLog == SelectSeq(log, LAMBDA e : e.fn \notin HandshakeFns)

-----------------------------------------------------------------------------
(* Claims about set_clock_source as configure calls it, checked under SpecNode *)

\* the accesses of the set_clock_source call of the running configure
ClockLog == LogOf("set_clock_source")

\* the selector value configure asked for
Requested == ClockSourceU8(cfg.clock_source)

\* set_clock_source has returned Err(()) to configure
ClockSwitchFailed ==
    \E k \in 1 .. Len(log) : log[k].op = "return" /\ log[k].val.res = "Err"

\* C11: if the clock-source switch fails, configure does not go on: it makes
\* no further register access and does not return Ok.
C11_ClockFailureAborts ==
    ClockSwitchFailed =>
        /\ ret # "Ok"
        /\ log[Len(log)].fn = "set_clock_source"

ClearsHandshake(e) == e.op = "write" /\ ~e.val.ccce /\ ~e.val.ci

ReadBack(l, k) == k > 1 /\ l[k].op = "read"

\* C12 as stated: CCCE and CI are cleared only after the selector has been
\* read back, so the read-back comes before the write that clears them.
C12_HandshakeHeldUntilVerified ==
    \A k, j \in 1 .. Len(ClockLog) :
        (ClearsHandshake(ClockLog[k]) /\ ReadBack(ClockLog, j)) => j < k

\* C12 amended: set_clock_source reads MCR, writes it with CCCE and CI set,
\* writes it with the new CLKSEL value, writes it with CCCE and CI cleared,
\* waits the settling delay, and only then reads the selector back and
\* returns: the handshake bits are already cleared when the selector is
\* verified.
C12_ClearBeforeVerify ==
    LET l == ClockLog
    IN  l # <<>> =>
          /\ [k \in 1 .. Len(l) |-> l[k].op] =
                <<"read", "write", "write", "write", "wait", "read", "return">>
          /\ l[2].val = McrHandshake(l[1].val, TRUE)
          /\ l[3].val = McrSelect(l[2].val, node_id, Requested)
          /\ l[4].val = McrHandshake(l[3].val, FALSE)
          /\ ~l[6].val.ccce /\ ~l[6].val.ci

C12_Witness ==
    /\ Len(ClockLog) = 7
    /\ ClockLog[1].val.clksel[node_id] # Requested
    /\ ClockLog[6].val.clksel[node_id] = Requested

\* the writes of l that change the CLKSEL fields last read or written
SelectorWrites(l) ==
    {k \in 2 .. Len(l) :
        l[k].op = "write" /\ l[k].val.clksel # l[k - 1].val.clksel}

\* C13: set_clock_source returns Err exactly when the selector read back
\* after the settling delay differs from the requested one; it changes the
\* selector in at most one write and writes nothing after the read-back.
C13_ErrIffMismatch ==
    LET l == ClockLog
    IN  l # <<>> =>
          /\ l[Len(l)].op = "return"
          /\ ReadBack(l, Len(l) - 1)
          /\ (l[Len(l)].val.res = "Err") <=>
                (l[Len(l) - 1].val.clksel[node_id] # Requested)
          /\ l[Len(l)].val.res \in {"Ok", "Err"}
          /\ Cardinality(SelectorWrites(SubSeq(l, 1, 4))) <= 1
          /\ \A k \in 1 .. Len(l) : l[k].op = "write" => k < Len(l) - 1

C13_Witness ==
    /\ Len(ClockLog) = 7
    /\ ClockLog[7].val.res = "Err"
    /\ ClockLog[6].val.clksel[node_id] # Requested
    /\ Cardinality(SelectorWrites(SubSeq(ClockLog, 1, 4))) = 1

-----------------------------------------------------------------------------
(* Claims about Module::enable, checked under Spec *)

\* C14: an Enabled module exists only after enable() has cleared DISR and
\* read DISS as cleared, and take_node is called only on such a module.
C14_EnabledOnlyWhenAcknowledged ==
    /\ modState = "Enabled" => (~clc.disr /\ ~clc.diss)
    /\ modState = "Enabling" => ~clc.disr
    /\ call.op = "take_node" => modState = "Enabled"
    /\ (\E i \in Slots : handles[i] > 0 \/ nodes_taken[i]) => modState = "Enabled"

C14_Witness ==
    /\ modState = "Enabled"
    /\ call.op = "take_node"
    /\ result = "Some"
    /\ ~clc.diss

-----------------------------------------------------------------------------
(* Claims about the whole run, checked under SpecRun *)

PollPcs ==
    {"ecc_poll_cce", "ecc_poll_init_clear", "ecc_poll_init_set",
     "dcc_poll_cce", "dcc_poll_init"}

\* the value a poll is waiting for has been read
Acknowledged(p) ==
    CASE p = "ecc_poll_cce"        -> ~cccr.cce
      [] p = "ecc_poll_init_clear" -> ~cccr.init
      [] p = "ecc_poll_init_set"   -> cccr.init
      [] p = "dcc_poll_cce"        -> ~cccr.cce
      [] p = "dcc_poll_init"       -> ~cccr.init

\* C15: when the hardware acknowledges every request, enable(),
\* enable_configuration_change and disable_configuration_change terminate and
\* configure returns; a poll is left only when the awaited value has been
\* read, so without the acknowledgement the call stays in the poll, and no
\* call reports an error.
C15_PollsEndOnlyOnAck ==
    /\ (modState = "Enabling") ~> (modState = "Enabled")
    /\ (pc \in EccPcs) ~> (pc = "configure_baud_rate")
    /\ (pc \in DccPcs) ~> (pc = "set_rx_fifo0")
    /\ (pc \notin {"idle", "done"}) ~> (pc = "done" /\ ret = "Ok")
    /\ [][/\ (modState = "Enabling" /\ modState' # modState) => ~clc.diss
          /\ (pc \in PollPcs /\ pc' # pc) => Acknowledged(pc)
          /\ ret' \in {"-", "Ok"}]_vars

C15_Witness ==
    /\ modState = "Enabled"
    /\ pc = "done"
    /\ ret = "Ok"
    /\ Len(LogOf("enable_configuration_change")) = 8
    /\ Len(LogOf("disable_configuration_change")) = 4

ClockWrite(e) == e.fn = "set_clock_source" /\ e.op = "write"

\* C16 as stated: enable() and set_clock_source write their registers while
\* CPU endinit protection is cleared, and the protection is set when they
\* have returned.
C16_WritesWithoutEndinit ==
    /\ modState = "Enabling" => ~cpu_endinit
    /\ modState = "Enabled" => cpu_endinit
    /\ \A k \in 1 .. Len(log) : ClockWrite(log[k]) => ~log[k].endinit

\* C16 amended: enable() writes CLC while CPU endinit protection is cleared
\* and sets the protection before it returns; set_clock_source does not
\* touch the protection, its MCR writes are made with the protection set.
C16_EnableWithoutEndinit ==
    /\ modState = "Enabling" => (~cpu_endinit /\ ~clc.disr)
    /\ modState \in {"Disabled", "Enabled"} => cpu_endinit
    /\ \A k \in 1 .. Len(log) : ClockWrite(log[k]) => log[k].endinit

C16_Witness ==
    /\ modState = "Enabled"
    /\ cpu_endinit
    /\ \E k \in 1 .. Len(log) : ClockWrite(log[k])

-----------------------------------------------------------------------------
(* Claims about the clock startup, checked under SpecCcu *)

\* C17: when a clock-startup function has returned, Ok or Err, safety endinit
\* protection is set.
C17_EndinitRestoredOnReturn ==
    \A k \in 1 .. Len(ccu_log) :
        ccu_log[k].k = "return" => ccu_log[k].endinit

-----------------------------------------------------------------------------
(* Claims about what configure writes, checked under SpecNode *)

\* configure has written register reg
Written(reg) ==
    \E k \in 1 .. Len(log) : log[k].op = "write" /\ log[k].reg = reg

\* the registers as CanNode::new finds them
DbtpReset == [dbrp |-> 0, dsjw |-> 0, dtseg1 |-> 0, dtseg2 |-> 0, tdc |-> FALSE]
TdcrReset == [tdco |-> 0]
TxescReset == [tbds |-> 0]
TxbcReset == [tbsa |-> 0, tfqm |-> FALSE, tfqs |-> 0]

\* the configured transceiver delay offset
Tdo == cfg.fast_baud_rate.transceiver_delay_offset

\* C18 as stated: configure writes the fast bit-timing register and the
\* transceiver-delay compensation if and only if the frame mode is not
\* Standard.
C18_FastAndTdcIffFd ==
    ret = "Ok" =>
        /\ Written("DBTP") <=> (cfg.frame_mode # "Standard")
        /\ Written("TDCR") <=> (cfg.frame_mode # "Standard")

\* C18 amended: configure writes the fast bit-timing register if and only if
\* the frame mode is not Standard, and the transceiver-delay compensation if
\* and only if moreover the configured delay offset is not 0; with Standard
\* frame mode both registers are left unchanged.
C18_FastIffFdTdcIffOffset ==
    /\ cfg.frame_mode = "Standard" =>
          /\ ~Written("DBTP") /\ ~Written("TDCR")
          /\ dbtp = DbtpReset /\ tdcr = TdcrReset
    /\ ret = "Ok" =>
          /\ Written("DBTP") <=> (cfg.frame_mode # "Standard")
          /\ Written("TDCR") <=> (cfg.frame_mode # "Standard" /\ Tdo # 0)
          /\ dbtp.tdc <=> (cfg.frame_mode # "Standard" /\ Tdo # 0)

C18_Witness ==
    /\ ret = "Ok"
    /\ cfg.frame_mode = "FdLong"
    /\ Tdo = 0
    /\ Written("DBTP")
    /\ ~Written("TDCR")

\* C19: for a node whose frame type does not include transmission, configure
\* writes none of the TX layout registers (TXESC, TXBC, TXBTIE) and leaves
\* them unchanged.
C19_TxLayoutOnlyWhenTransmitting ==
    ~Transmits(cfg.frame_type) =>
        /\ ~Written("TXESC") /\ ~Written("TXBC") /\ ~Written("TXBTIE")
        /\ txesc = TxescReset /\ txbc = TxbcReset /\ txbtie = {}

\* the start address of the message-RAM region written at log entry e
StartAddress(e) ==
    CASE e.fn = "tx_buffer"    -> cfg.message_ram_tx_buffers_start_address
      [] e.fn = "set_tx_fifo"  -> TxFifoData.start_address
      [] e.fn = "set_rx_fifo0" -> RxFifo0Data.start_address

WritesStartAddress(e) ==
    /\ e.op = "write"
    /\ \/ e.reg = "TXBC" /\ "tbsa" \in DOMAIN e.val
       \/ e.reg = "RXF0C" /\ "f0sa" \in DOMAIN e.val

\* C20: a start address that is not a multiple of 4 is never written into a
\* start-address field, and configure does not return Ok when it was given
\* one.
C20_UnalignedAddressRejected ==
    /\ \A k \in 1 .. Len(log) :
          WritesStartAddress(log[k]) => StartAddress(log[k]) % 4 = 0
    /\ (Transmits(cfg.frame_type)
          /\ cfg.message_ram_tx_buffers_start_address % 4 # 0) => ret # "Ok"

-----------------------------------------------------------------------------
(* Claims about the decoding of a received element, checked under SpecRx *)

\* the bytes of the data field size codes 0..7
DataFieldSizes == <<8, 12, 16, 20, 24, 32, 48, 64>>

\* C21: get_data_field_size returns (c + 2) * 4 for a size code c below 5
\* and (c - 3) * 16 for c of 5 and more: 8, 12, 16, 20, 24, 32, 48, 64 for
\* c = 0..7, with no u8 overflow.
C21_DataFieldSizeOfCode ==
    io.op = "get_data_field_size" =>
        LET c == SizeCodeOf(io.arg)
        IN  /\ c \in 0 .. 7
            /\ io.out = (IF c < 5 THEN (c + 2) * 4 ELSE (c - 3) * 16)
            /\ io.out = DataFieldSizes[c + 1]

C21_Witness ==
    /\ io.op = "get_data_field_size"
    /\ SizeCodeOf(io.arg) = 5
    /\ io.out = 32

\* C22: get_message_id returns the identifier field shifted right by 18
\* when XTD is clear and unshifted when XTD is set; get_message_id_lenght
\* reports Extended exactly when XTD is set; both decide on the same XTD.
C22_IdShiftedIffStandard ==
    /\ io.op = "get_message_id" =>
           io.out = (IF rx_elem.xtd THEN rx_elem.id
                                    ELSE rx_elem.id \div (2 ^ 18))
    /\ io.op = "get_message_id_lenght" =>
           (io.out = "Extended" <=> rx_elem.xtd)
    /\ message_lenght(rx_elem) = get_message_id_lenght(rx_elem)

C22_Witness ==
    /\ io.op = "get_message_id"
    /\ ~rx_elem.xtd
    /\ rx_elem.id = 291 * (2 ^ 18) + 5
    /\ io.out = 291

\* C23: get_frame_mode returns FdLongAndFast exactly when FDF and BRS are
\* set, FdLong exactly when FDF is set and BRS clear, Standard whenever FDF
\* is clear; decoding the (FDOE, BRSE) pair set_frame_mode writes for a mode
\* gives that mode back.
C23_FrameModeDecoded ==
    io.op = "get_frame_mode" =>
        /\ io.out = "FdLongAndFast" <=> (rx_elem.fdf /\ rx_elem.brs)
        /\ io.out = "FdLong" <=> (rx_elem.fdf /\ ~rx_elem.brs)
        /\ ~rx_elem.fdf => io.out = "Standard"
        /\ \A m \in FrameModes :
               FrameModeBits(m) = [fdoe |-> rx_elem.fdf, brse |-> rx_elem.brs]
                   => io.out = m

C23_Witness ==
    /\ io.op = "get_frame_mode"
    /\ FrameModeBits("FdLong") = [fdoe |-> rx_elem.fdf, brse |-> rx_elem.brs]
    /\ io.out = "FdLong"

-----------------------------------------------------------------------------
(* Claims about new data flags, frames and transmit, checked under SpecBuf *)

\* C24: a transmit call that reports success has written the frame into a
\* TX buffer or FIFO slot and has then set the add request bit of that
\* buffer.
C24_SuccessImpliesAddRequest ==
    (io.op = "transmit" /\ io.out = "Ok") =>
        \E k \in 1 .. Len(io.wr) :
            /\ io.wr[k].reg = "TXBAR"
            /\ \E j \in 1 .. (k - 1) : io.wr[j].reg = "TXRAM"
            /\ txbar # {}

\* the new data flag of buffer j
NewData(j) == IF j < 32 THEN j \in ndat1 ELSE (j - 32) \in ndat2

\* C25: for a buffer i of 0..63 clear_rx_buffer_new_data_flag(i) writes
\* exactly one bit, bit i of NDAT1 when i < 32 and bit i - 32 of NDAT2
\* otherwise, the bit is_rx_buffer_new_data_updated(i) tests; the new data
\* flags of the other buffers keep their value.
C25_ClearsTestedFlagOnly ==
    /\ [](io.op = "clear_rx_buffer_new_data_flag" =>
            LET i == io.arg
                w == io.wr[1]
            IN  /\ Len(io.wr) = 1
                /\ w.reg = (IF i < 32 THEN "NDAT1" ELSE "NDAT2")
                /\ w.raw = {IF i < 32 THEN i ELSE i - 32}
                /\ w.reg = NewDataTest(i).reg
                /\ w.raw = NewDataTest(i).mask
                /\ ~is_rx_buffer_new_data_updated(i))
    /\ [][io'.op = "clear_rx_buffer_new_data_flag" =>
            \A j \in (0 .. 63) \ {io'.arg} : NewData(j)' = NewData(j)]_vars
    /\ [](io.op = "is_rx_buffer_new_data_updated" =>
            io.out = NewData(io.arg))

C25_Witness ==
    /\ io.op = "clear_rx_buffer_new_data_flag"
    /\ io.arg = 32
    /\ ndat1 = {0, 1, 31}
    /\ ndat2 = {1, 31}

-----------------------------------------------------------------------------
(* Claims about node indices, checked under Spec *)

\* C28: take_node with a node index outside 0..3 never returns a handle and
\* never marks a slot as claimed: the call fails before it touches the
\* flags or a clock select field.
C28_OutOfRangeFailsFast ==
    [][(call'.op = "take_node" /\ call'.node \notin Slots) =>
          /\ result' = "Panic"
          /\ panicked'
          /\ UNCHANGED <<nodes_taken, mcr, handles>>]_vars

C28_Witness ==
    /\ call.op = "take_node"
    /\ call.node \notin Slots
    /\ result = "Panic"
    /\ \E i \in Slots : nodes_taken[i]

-----------------------------------------------------------------------------
(* Claims about message RAM and bit timing, checked under SpecNode *)

\* the bytes between the start of the message RAM of a module and its
\* registers: ram_base_address is the address of ACCEN0 less this offset
MessageRamWindow == 33020

\* the end of the first TX buffer element config c asks for
RequestedTxEnd(c) ==
    c.message_ram_tx_buffers_start_address
        + 8 + DataFieldSizeBytes(c.tx_buffer_data_field_size)

\* C26: configuring a node with message RAM regions that do not fit the
\* message RAM window of the module fails with RamOverflow: no operational
\* node results.
C26_RamOverflowRejected ==
    (ret # "-" /\ Transmits(cfg.frame_type)
              /\ RequestedTxEnd(cfg) > MessageRamWindow)
        => ret = "RamOverflow"

\* the regions the registers describe: elements of 8 header bytes and a
\* data field, times the number of elements
RxFifo0Region ==
    [start |-> rxf0c.f0sa * 4,
     size  |-> rxf0c.f0s * (8 + DataFieldSizeBytes(rxesc.f0ds))]
TxRegion ==
    [start |-> txbc.tbsa * 4,
     size  |-> txbc.tfqs * (8 + DataFieldSizeBytes(txesc.tbds))]

Disjoint(a, b) == a.start + a.size <= b.start \/ b.start + b.size <= a.start

\* C27: after a successful configure the programmed regions (the RX FIFO0
\* elements and the TX buffer elements) do not overlap and each start
\* address is a multiple of 4.
C27_RegionsDisjointAndAligned ==
    ret = "Ok" =>
        /\ Disjoint(RxFifo0Region, TxRegion)
        /\ RxFifo0Region.start % 4 = 0
        /\ TxRegion.start % 4 = 0

C27_Witness ==
    /\ ret = "Ok"
    /\ Transmits(cfg.frame_type)
    /\ RxFifo0Region = [start |-> 256, size |-> 64]
    /\ TxRegion = [start |-> 1088, size |-> 64]

\* the timing values configure hands to the setters of NBTP and of DBTP
NominalGiven(c) ==
    LET b == c.baud_rate
        t == calculate_bit_timing(b.baud_rate, b.sample_point, b.sync_jump_with)
    IN  IF c.calculate_bit_timing_values
        THEN [nbrp |-> t.brp, nsjw |-> t.sjw, ntseg1 |-> t.tseg1,
              ntseg2 |-> t.tseg2]
        ELSE [nbrp |-> b.prescalar, nsjw |-> b.sync_jump_with,
              ntseg1 |-> b.time_segment_1, ntseg2 |-> b.time_segment_2]
DataGiven(c) ==
    LET b == c.fast_baud_rate
        t == calculate_fast_bit_timing(b.baud_rate, b.sample_point,
                                       b.sync_jump_with)
    IN  IF c.calculate_bit_timing_values
        THEN [dbrp |-> t.brp, dsjw |-> t.sjw, dtseg1 |-> t.tseg1,
              dtseg2 |-> t.tseg2]
        ELSE [dbrp |-> b.prescalar, dsjw |-> b.sync_jump_with,
              dtseg1 |-> b.time_segment_1, dtseg2 |-> b.time_segment_2]

\* C29: every timing value written to the bit timing registers fits its
\* field (nominal: brp < 2^9, sjw < 2^7, tseg1 < 2^8, tseg2 < 2^7; data:
\* brp < 2^5, sjw < 2^4, tseg1 < 2^5, tseg2 < 2^4): no value is written
\* truncated or wrapped.
C29_TimingFitsFields ==
    \A k \in 1 .. Len(log) :
        LET e == log[k]
            n == NominalGiven(cfg)
            d == DataGiven(cfg)
        IN  /\ (e.op = "write" /\ e.reg = "NBTP") =>
                   /\ n.nbrp < 2 ^ 9 /\ n.nsjw < 2 ^ 7
                   /\ n.ntseg1 < 2 ^ 8 /\ n.ntseg2 < 2 ^ 7
                   /\ e.val = n
            /\ (e.op = "write" /\ e.reg = "DBTP" /\ e.val # [tdc |-> TRUE]) =>
                   /\ d.dbrp < 2 ^ 5 /\ d.dsjw < 2 ^ 4
                   /\ d.dtseg1 < 2 ^ 5 /\ d.dtseg2 < 2 ^ 4
                   /\ e.val.dbrp = d.dbrp /\ e.val.dsjw = d.dsjw
                   /\ e.val.dtseg1 = d.dtseg1 /\ e.val.dtseg2 = d.dtseg2

-----------------------------------------------------------------------------
(* Claims about the TX layout and the clock selector, checked under SpecNode *)

\* C31: when the frame type includes transmission, TXBC.TBSA and TXESC.TBDS
\* hold, after configure returns, the values of the node configuration
\* (message_ram_tx_buffers_start_address >> 2 and tx_buffer_data_field_size):
\* no later step of configure overwrites them.
C31_TxLayoutOfConfigKept ==
    (ret = "Ok" /\ Transmits(cfg.frame_type)) =>
        /\ txbc.tbsa = cfg.message_ram_tx_buffers_start_address \div 4
        /\ txesc.tbds = cfg.tx_buffer_data_field_size

\* the last write set_clock_source made to MCR
LastMcrWrite(l) ==
    l[CHOOSE k \in 1 .. Len(l) :
        /\ l[k].op = "write"
        /\ \A j \in (k + 1) .. Len(l) : l[j].op # "write"].val

\* C32: when set_clock_source returns, with Ok or with Err, the value it
\* last wrote to MCR differs from the value it read at entry only in the
\* CLKSEL field of the selected node (the requested source, in 1..3) and in
\* CCCE and CI, both cleared; the CLKSEL fields of the other nodes are those
\* read at entry.
C32_OnlySelectedFieldWritten ==
    LET l == ClockLog
    IN  (l # <<>> /\ l[Len(l)].op = "return") =>
          LET m == l[1].val
              w == LastMcrWrite(l)
          IN  /\ l[1].op = "read"
              /\ w.clksel[node_id] = Requested
              /\ Requested \in 1 .. 3
              /\ \A j \in Slots \ {node_id} : w.clksel[j] = m.clksel[j]
              /\ ~w.ccce /\ ~w.ci
              /\ w = [m EXCEPT !.clksel[node_id] = Requested,
                               !.ccce = FALSE, !.ci = FALSE]

C32_Witness ==
    /\ ClockLog # <<>>
    /\ ClockLog[Len(ClockLog)].val = [res |-> "Err"]
    /\ ClockLog[1].val.clksel[node_id] # Requested
    /\ LastMcrWrite(ClockLog).clksel[node_id] = Requested

-----------------------------------------------------------------------------
(* Claims about the TX registers, checked under SpecTx *)

\* C33: for every TX data field size code c in 0..7, after
\* set_tx_buffer_data_field_size(c), get_tx_buffer_data_field_size returns
\* the bytes of code c (8, 12, 16, 20, 24, 32, 48, 64), the size
\* get_data_field_size returns for an RX region with code c.
C33_TxSizeOfCode ==
    io.op = "get_tx_buffer_data_field_size" =>
        /\ io.out = DataFieldSizes[txesc.tbds + 1]
        /\ io.out = DataFieldSizeBytes(txesc.tbds)

\* of Fifo and Queue, the other mode
OtherQueueMode(m) == IF m = "Fifo" THEN "Queue" ELSE "Fifo"

\* C34: set_transmit_fifo_queue_mode writes different TFQM values for
\* TxMode::Fifo and for TxMode::Queue: a node set up for FIFO operation and
\* one set up for queue operation end with different TFQM values.
C34_FifoAndQueueDiffer ==
    /\ (io.op = "set_transmit_fifo_queue_mode" /\ io.arg \in {"Fifo", "Queue"})
          => txbc.tfqm # set_transmit_fifo_queue_mode(OtherQueueMode(io.arg))
    /\ (io.op = "effects.set_transmit_fifo_queue_mode"
          /\ io.arg \in {"Fifo", "Queue"})
          => txbc.tfqm #
               effects_set_transmit_fifo_queue_mode(OtherQueueMode(io.arg))

-----------------------------------------------------------------------------
(* Claims about wait_cond and wait_divider, checked under SpecWait *)

\* C35: wait_cond(n, cond) waits until cond returns true or the timeout
\* expires: it returns Ok once cond() is true, and Err if cond() has not
\* become true within n polls.
C35_WaitsUntilTrue ==
    /\ w_ret = "Ok" => w_obs.cond
    /\ w_ret = "Err" => (w_polls = w_n /\ ~w_obs.cond)

AllDividersReady ==
    w_obs.sys_k2rdy /\ w_obs.per_k2rdy /\ w_obs.per_k3rdy

\* C40: wait_divider returns Ok only after the K2 divider of the system
\* PLL, the K2 divider of the peripheral PLL and the K3 divider of the
\* peripheral PLL have been read ready in the same poll; if one of them is
\* not ready when the timeout expires it returns Err.
C40_DividerAllReady ==
    /\ (w_cond = "divider" /\ w_ret = "Ok") => AllDividersReady
    /\ (w_cond = "divider" /\ w_n >= 1 /\ w_polls = w_n /\ ~AllDividersReady)
          => w_ret = "Err"


-----------------------------------------------------------------------------
(* Claims about the PLL lock and the CCUCON locks, checked under SpecCcu *)

\* entry k of the log is the write of line 231: CLKSEL of CCUCON0 set to the PLL
SwitchToPll(k) ==
    /\ ccu_log[k].fn = "configure_ccu_initial_step"
    /\ ccu_log[k].k = "write"
    /\ ccu_log[k].line = 231

\* entry k of the log is the end of the PLL lock wait of line 204
LockWait(k) ==
    /\ ccu_log[k].fn = "configure_ccu_initial_step"
    /\ ccu_log[k].k = "wait"
    /\ ccu_log[k].line = 204

\* the last write of CCUCON0 in the log is the one of line 94: CLKSEL backup
SelectorOnBackup ==
    /\ \E k \in 1 .. Len(ccu_log) :
           ccu_log[k].k = "write" /\ ccu_log[k].reg = "CCUCON0"
    /\ \A k \in 1 .. Len(ccu_log) :
           (ccu_log[k].k = "write" /\ ccu_log[k].reg = "CCUCON0")
               => ccu_log[k].line = 94

\* C37: configure_ccu_initial_step writes CLKSEL = PLL to CCUCON0 only after
\* the lock wait ended with both the system PLL and the peripheral PLL read
\* locked; when the lock wait times out the function returns Err at once, the
\* last selector written is the backup clock, init returns its error and no
\* step of a later startup function is taken.
C37_PllOnlyAfterBothLocked ==
    /\ \A k \in 1 .. Len(ccu_log) :
           SwitchToPll(k) =>
               \E j \in 1 .. k - 1 :
                   LockWait(j) /\ ccu_log[j].obs = {"sys.lock", "per.lock"}
    /\ \A j \in 1 .. Len(ccu_log) :
           (LockWait(j) /\ ccu_log[j].obs # {"sys.lock", "per.lock"}) =>
               /\ Len(ccu_log) = j + 1
               /\ ccu_log[j + 1].k = "return"
               /\ ccu_log[j + 1].reg = "Err"
               /\ SelectorOnBackup
               /\ ccu_fn = "-"
               /\ ccu_ret = "ConfigureCCUInitialStep"

\* the selector has been switched to the PLL
C37_Witness ==
    \E k \in 1 .. Len(ccu_log) :
        /\ SwitchToPll(k)
        /\ \E j \in 1 .. k - 1 :
               LockWait(j) /\ ccu_log[j].obs = {"sys.lock", "per.lock"}

\* the registers written under their lock bit
LockedRegs == {"CCUCON0", "CCUCON1", "CCUCON2", "CCUCON5"}

\* the name of the lock wait of register reg
LckOf(reg) ==
    CASE reg = "CCUCON0" -> "CCUCON0.LCK"
      [] reg = "CCUCON1" -> "CCUCON1.LCK"
      [] reg = "CCUCON2" -> "CCUCON2.LCK"
      [] reg = "CCUCON5" -> "CCUCON5.LCK"

\* entry k of the log is a write of a locked register by one of the two
\* functions
LockedWrite(k) ==
    /\ ccu_log[k].fn \in {"configure_ccu_initial_step", "distribute_clock_inline"}
    /\ ccu_log[k].k = "write"
    /\ ccu_log[k].reg \in LockedRegs

\* entry k of the log is the end of a wait for LCK of register reg
LckWait(k, reg) ==
    /\ ccu_log[k].k = "wait"
    /\ ccu_log[k].reg = LckOf(reg)

\* C38: in configure_ccu_initial_step and distribute_clock_inline a write of
\* CCUCON0, 1, 2 or 5 comes directly after a wait that read LCK of that
\* register clear; the step after the write is a wait for LCK of the same
\* register, and the function takes a further step only when that wait read
\* LCK clear; a wait that still reads LCK set at its timeout is followed by
\* the Err return and by nothing else.
C38_WritesBetweenLockWaits ==
    /\ \A k \in 1 .. Len(ccu_log) :
           LockedWrite(k) =>
               /\ k > 1
               /\ LckWait(k - 1, ccu_log[k].reg)
               /\ "lck" \notin ccu_log[k - 1].obs
               /\ IF k = Len(ccu_log)
                  THEN /\ CcuRunning
                       /\ CcuAt.k = "wait"
                       /\ CcuAt.reg = LckOf(ccu_log[k].reg)
                  ELSE LckWait(k + 1, ccu_log[k].reg)
    /\ \A k \in 1 .. Len(ccu_log) :
           (ccu_log[k].k = "wait" /\ "lck" \in ccu_log[k].obs) =>
               /\ Len(ccu_log) = k + 1
               /\ ccu_log[k + 1].k = "return"
               /\ ccu_log[k + 1].reg = "Err"
               /\ ccu_fn = "-"

\* distribute_clock_inline has written CCUCON5 between two waits that read its
\* LCK clear
C38_Witness ==
    \E k \in 2 .. Len(ccu_log) - 1 :
        /\ LockedWrite(k)
        /\ ccu_log[k].line = 386
        /\ "lck" \notin ccu_log[k - 1].obs
        /\ LckWait(k + 1, "CCUCON5")
        /\ "lck" \notin ccu_log[k + 1].obs


-----------------------------------------------------------------------------
(* Claims about the distributed register values, checked under SpecDist *)

\* the bits of register r the claim lets the function set outside the mask
Exempt(r) == IF r = "CCUCON5" THEN Up ELSE {}

\* C39: when distribute_clock_inline has returned Ok, in each of CCUCON0, 1,
\* 2, 5, 6, 7 and 8 the bits inside the mask are those of value & mask and the
\* bits outside the mask are as they were at the call, apart from UP of
\* CCUCON5.
C39_MaskedValueOnly ==
    dist_ret = "Ok" =>
        \A r \in CcuconRegs :
            /\ ccucon[r] \cap clock_distribution.mask
                   = clock_distribution.value \cap clock_distribution.mask
            /\ (ccucon[r] \ clock_distribution.mask) \ Exempt(r)
                   = (ccucon_pre[r] \ clock_distribution.mask) \ Exempt(r)

=============================================================================
